---------------------------- MODULE Spec2Model ----------------------------
(***************************************************************************)
(* A model of the IPXTransporter relay engine (internal/relay, internal/   *)
(* peer): the deduplication cache, the fan-out loop of Server.Start, the   *)
(* per-peer link (Peer.Run: keyed handshake, receive and send streams),    *)
(* and the admission path (handleNewConn, BanPeer, listener and dialers).  *)
(*                                                                         *)
(* The specifications share the variables below; each one runs the part of *)
(* the program its properties are about and leaves the rest at rest:       *)
(*   SpecDedup, SpecDedupCalls, SpecDedupTTL  the DedupCache               *)
(*   Spec       the fan-out loop with registered, running peers            *)
(*   SpecLink   two Peer.Run instances at the two ends of one connection   *)
(*   SpecAdmit, SpecBan  listener, dialers, handleNewConn and BanPeer      *)
(*   SpecServe  running links served with frames                           *)
(*   SpecStats, SpecSnap  CollectStats and the statistics snapshot         *)
(*   SpecBoot   Server.Start                                               *)
(*   SpecAddPeer  concurrent AddPeer calls                                 *)
(*   SpecListen  the accept loop of listenPeers                            *)
(*   SpecDial, SpecDialFair  connectToPeer goroutines                      *)
(***************************************************************************)
EXTENDS Integers, Sequences, FiniteSets, TLC

\* ------------------------------------------------------------------ bounds

\* Largest cache capacity SpecDedup constructs (NewDedupCache(size, ttl)).
MaxCacheSize == 3
\* Number of IsDuplicate calls SpecDedup makes on one cache.
MaxCalls == 6

\* Slots of the bounded channels (packetChan, peerRelayChan, Peer.SendChan).
\* The program makes each with 1000 slots; the model keeps the same
\* blocking and dropping rules on channels of this size.
ChanCap == 2
\* Frames captured at server 1 in SpecLink.
MaxLinkFrames == 2

\* Frames that enter the relay engine in Spec, captured or sent by peers.
MaxFrames == 3
\* CollectStats calls made in SpecStats on one registry.
MaxStatCalls == 2
\* Largest registry SpecStats takes snapshots of.
MaxStatPeers == 3
\* Goroutines that call SetSortField in SpecStats and SpecSave.
MaxSortCallers == 1

\* Seconds the clock of SpecDedupTTL runs, the largest TTL its cache is made
\* with, and the IsDuplicate calls made in it.
MaxSeconds == 3
MaxTTL == 2
MaxTTLCalls == 3
\* Most addresses in cfg.Peers when Start is called in SpecBoot.
MaxPeersCfg == 2
\* CollectStats calls whose loads are followed one by one.
MaxSnapshots == 1
\* Goroutines that call IsDuplicate at the same time in SpecDedupCalls.
MaxCallers == 2
\* Iterations of runDemo, the most demo peers asked for, and the
\* UpdateDemoProps calls and the goroutines that make them.
MaxDemoTicks == 2
MaxDemoPeers == 5
MaxDemoUpdates == 1
MaxDemoCallers == 1
\* AddPeer calls made in SpecAddPeer, and the goroutines that make them.
MaxAddCalls == 2
MaxAddCallers == 2
\* BanPeer calls made in SpecAdmit, each by a goroutine of its own.
MaxBans == 1
\* BanPeer calls made in SpecBan, each by a goroutine of its own.
MaxBanCalls == 2
\* Largest max_children SpecAdmit and SpecChild configure.
MaxChildrenCfg == 2
\* Goroutines that call UpdateConfig in SpecChild and SpecSave.
MaxUpdaters == 1
\* Saves made in the TUI.
MaxSaves == 1

\* Frames and length prefixes sent by clients plus frames captured in
\* SpecServe.
MaxServeFrames == 2

\* -------------------------------------------------------- program constants

\* Longest network key a handshake accepts from the remote side.
MaxKeyLen == 256
\* Longest frame the receive stream accepts.
MaxFrame == 2000
\* config.DefaultConfig: DedupCacheTTL, in seconds.
DedupCacheTTL == 30

\* ------------------------------------------------------------ data values

\* Frames are byte strings; these are the ones the runs draw from
\* ([0x01 0x02], [0xAA], [0x03]).
P1 == <<1, 2>>
P2 == <<170>>
P3 == <<3>>
Packets == {P1, P2, P3}

Range(s) == {s[i] : i \in 1..Len(s)}

\* Network keys, as byte strings: "alpha", "omega", 257 times "k", and the
\* empty key of a node that has none configured.
KeyAlpha == <<97, 108, 112, 104, 97>>
KeyOmega == <<111, 109, 101, 103, 97>>
KeyLong == [i \in 1..(MaxKeyLen + 1) |-> 107]
NoKey == <<>>

\* binary.Write(conn, binary.BigEndian, uint32(n)): the four bytes written.
U32BE(n) ==
    <<(n \div 16777216) % 256, (n \div 65536) % 256, (n \div 256) % 256, n % 256>>

\* binary.Read(conn, binary.BigEndian, &n): the value of four bytes read.
FromU32BE(b) == ((b[1] * 256 + b[2]) * 256 + b[3]) * 256 + b[4]

\* A frame on the wire, as the sender writes it: its length as a big-endian
\* uint32, then its bytes.
Frame(data) == U32BE(Len(data)) \o data

\* ------------------------------------------------------------------ state

VARIABLES
    dedup,       \* DedupCache.cache: the keys, most recently added first
    dedupSize,   \* the capacity the cache was constructed with
    calls        \* SpecDedup: the IsDuplicate calls so far, each
                 \* [data, dup, before]: argument, result, cache before it

\* One entry per connection end e.  A connection has a local end, run by a
\* server of this program, and a remote side that is either the end of
\* another server of this program (conn[e].other) or an arbitrary client.
VARIABLES
    peer,        \* peer[e]: the Peer struct: ID, networkKey, parentID,
                 \*   numChildren, maxChildren, SendChan, recvBytes, recvPkts,
                 \*   sentBytes, sentPkts, errors
    run,         \* run[e]: where Peer.Run and its two goroutines stand:
                 \*   hpc (handleNewConn/Run), remoteKeyLen, remoteKey,
                 \*   rpc (receiver), length, data, spc (sender), sdata,
                 \*   disc (invocations of onDisconnect so far)
    conn         \* conn[e]: the transport (net.Conn): node (the server owning
                 \*   this end), other (the end at the far side, 0 for an
                 \*   arbitrary client), rx (bytes sent to e and not yet
                 \*   read), written (all bytes e wrote), closed (e closed
                 \*   it), remoteClosed (a client closed its side)

\* One entry per server n.
VARIABLES
    peers,          \* peers[n]: Server.peers, peer ID -> end
    peerRelayChan,  \* peerRelayChan[n]: Server.peerRelayChan
    ctxDone         \* ctxDone[n]: the root context of n is cancelled

\* The relay engine of server 1 (Server.Start).
VARIABLES
    packetChan,      \* the capture channel
    totalReceived,   \* Server.totalReceived
    totalForwarded,  \* Server.totalForwarded
    totalDropped,    \* Server.totalDropped
    totalErrors,     \* Server.totalErrors
    loop,            \* the fan-out loop: pc, data (the frame in hand)
    captureUp,       \* capturer.Start succeeded (the pcap handle is set)
    relayLog,        \* the loop's finished iterations, each [src, data, dup,
                     \*   added (copies put into each SendChan), inject
                     \*   ("none", "ok", "err"), store (the cache after it)]
    nFrames          \* frames that have entered so far

\* The admission path of server 1.
VARIABLES
    cfg,         \* Server.cfg: BannedIDs, BannedHosts, AdminPass, MaxChildren,
                 \*   NetworkKey (the key s.cfg.NetworkKey names)
    hnc,         \* hnc[e]: pc (where handleNewConn stands for connection
                 \*   e), banned (e was on a deny-list as it arrived),
                 \*   localChildren (its count of the registry),
                 \*   maxChildren (the s.cfg.MaxChildren its check read)
    ban,         \* ban[c]: the BanPeer call of goroutine c: pc, id, ip,
                 \*   seen (the slice its append has read), data (the
                 \*   configuration it has marshalled)
    admitLog     \* the registry insertions so far, each [id, bannedIDs,
                 \*   bannedHosts (the deny lists at that moment),
                 \*   maxChildren (the limit the connection's check read),
                 \*   size (of the registry after it)]

\* The statistics snapshots of server 1.
VARIABLES
    stats        \* reg (the PeerStat values of the registered peers), field
                 \*   and reverse (cfg.SortField, cfg.SortReverse), results
                 \*   (the Stats values the CollectStats calls returned:
                 \*   SortField, SortReverse, Peers), call (the CollectStats
                 \*   call in progress: pc, peers, field), set (set[k]: the
                 \*   SetSortField call of goroutine k: pc, data)

\* Concurrent callers of the cache, its TTL and the wall clock.
VARIABLES
    callers,     \* callers[c]: an IsDuplicate call in progress: pc, data, dup
    ttl,         \* DedupCache.ttl, in seconds
    now          \* the wall clock, in seconds since the cache was made

\* The aggregate part of a statistics snapshot and the start of the server.
VARIABLES
    snap,        \* the CollectStats call in progress: pc, st (the Stats value
                 \*   being filled), stored (Start had stored captureError
                 \*   as the call began), n (calls so far), out (the values
                 \*   returned so far, each with its stored)
    boot         \* Server.Start: pc; capture (how capturer.Start will end),
                 \*   disableSSL, certOK (the TLS pair loads), listenOK (the
                 \*   address can be bound), nPeers (len(cfg.Peers));
                 \*   captureError (s.captureError), listen (the listenPeers
                 \*   goroutine), dialers (connectToPeer goroutines
                 \*   launched), ret (what Start returned)

\* The peer list of the configuration and the outbound dialers.
VARIABLES
    addp,        \* Server.AddPeer: peers (s.cfg.Peers), demoMode
                 \*   (s.demoMode), switched (SetDemoMode was called after
                 \*   Start), call (call[c]: pc, addr, data (the
                 \*   configuration marshalled) of the AddPeer call of
                 \*   goroutine c), n (calls so far)
    dialer       \* dialer[d]: a connectToPeer goroutine: pc, addr (the
                 \*   address it dials), e (the connection a dial of this
                 \*   goroutine makes, 0 when nothing listens there), ctx
                 \*   (the context it was given: "server", the root
                 \*   context of Start, or the context of an API request,
                 \*   "request" and, once cancelled, "request_done")

\* The configuration file and the goroutines that write the configuration.
VARIABLES
    configPath,  \* Server.configPath and TUI.configPath: the path given to
                 \*   NewServer, "" when the server has no file
    configFile,  \* the file at that path: exists, pieces (its bytes, as
                 \*   the pieces of marshalled configurations that writes
                 \*   have left in it, from offset 0 on)
    upd,         \* upd[u]: the UpdateConfig call of goroutine u: pc,
                 \*   adminPass, maxChildren, networkKey (its arguments),
                 \*   data (the configuration it has marshalled)
    tui          \* the TUI goroutine: pc, data (the configuration its
                 \*   save dialog has marshalled)

\* Demo mode.
VARIABLES
    demo         \* the demo driver: pc (where runDemo stands), tick (a
                 \*   tick waits in ticker.C), packetRate, dropRate,
                 \*   errorRate, numPeers (s.demoPacketRate, ...), n (its
                 \*   iterations so far)

dedupVars == <<dedup, dedupSize, calls>>
callVars == <<callers>>
clockVars == <<ttl, now>>
snapVars == <<snap>>
bootVars == <<boot>>
ctlVars == <<addp, dialer>>
fileVars == <<configPath, configFile>>
writerVars == <<upd, tui>>
demoVars == <<demo>>
opsVars == <<fileVars, writerVars, demoVars>>
procVars == <<callVars, clockVars, snapVars, bootVars, ctlVars>>
restVars == <<procVars, opsVars>>
statVars == <<stats>>
admitVars == <<cfg, hnc, ban, admitLog>>
relayVars == <<packetChan, totalReceived, totalForwarded, totalDropped,
               totalErrors, loop, captureUp, relayLog, nFrames>>
endVars == <<peer, run, conn>>
nodeVars == <<peers, peerRelayChan, ctxDone>>
otherVars == <<dedupVars, relayVars, admitVars, statVars, restVars>>
vars == <<dedupVars, endVars, nodeVars, relayVars, admitVars, statVars, restVars>>

\* ------------------------------------------------------------- DedupCache

\* sha256.Sum256(data) turned into the cache key.  The digest is kept
\* symbolic: a value that is equal for equal frames and different for
\* different frames (SHA-256 taken to be collision free on the frames used).
Sum256(data) == <<"sha256", data>>

\* lru.Cache.Contains: membership only; the recency order is not touched.
LruContains(cache, key) == key \in Range(cache)

\* Position of key in the cache (0 when absent).
LruIndex(cache, key) ==
    IF key \in Range(cache)
    THEN CHOOSE i \in 1..Len(cache) : cache[i] = key
    ELSE 0

\* The cache without its i-th entry.
RemoveAt(s, i) == SubSeq(s, 1, i - 1) \o SubSeq(s, i + 1, Len(s))

\* A defect of lru.Cache.Add: nothing is removed when the cache is full.
LruAddUnbounded(cache, size, key) ==
    IF key \in Range(cache)
    THEN <<key>> \o RemoveAt(cache, LruIndex(cache, key))
    ELSE <<key>> \o cache

\* lru.Cache.Add: an existing key moves to the front; a new key is pushed to
\* the front and, when the cache is over capacity, the oldest entry (the
\* back of the list) is removed.
LruAdd(cache, size, key) ==
    IF key \in Range(cache)
    THEN <<key>> \o RemoveAt(cache, LruIndex(cache, key))
    ELSE IF Len(cache) + 1 > size
         THEN <<key>> \o SubSeq(cache, 1, size - 1)
         ELSE <<key>> \o cache

\* A defect of IsDuplicate: the key is added before the cache is asked.
IsDuplicateResultAfterAdd(cache, data) == TRUE

\* DedupCache.IsDuplicate, its result.
IsDuplicateResult(cache, data) == LruContains(cache, Sum256(data))

\* A defect of IsDuplicate: a miss is reported and not remembered.
IsDuplicateCacheNoAdd(cache, size, data) == cache

\* DedupCache.IsDuplicate, the cache it leaves: untouched on a hit (Contains
\* does not refresh the entry), the key added on a miss.
IsDuplicateCache(cache, size, data) ==
    IF LruContains(cache, Sum256(data))
    THEN cache
    ELSE LruAdd(cache, size, Sum256(data))

\* NewDedupCache(size, ttl): lru.New fails for size <= 0, so a constructed
\* cache has a positive capacity and starts empty.
NewDedupCache(size) == <<>>

\* One IsDuplicate call on the cache of SpecDedup.
CallIsDuplicate(data) ==
    /\ Len(calls) < MaxCalls
    /\ calls' = Append(calls, [data |-> data,
                               dup |-> IsDuplicateResult(dedup, data),
                               before |-> dedup, at |-> now])
    /\ dedup' = IsDuplicateCache(dedup, dedupSize, data)
    /\ UNCHANGED <<admitVars, statVars, restVars, dedupSize, endVars, nodeVars, relayVars>>

\* A second passes on the wall clock.
Tick ==
    /\ now < MaxSeconds
    /\ now' = now + 1
    /\ UNCHANGED <<ttl, dedupVars, endVars, nodeVars, relayVars, admitVars,
                   statVars, ctlVars, callVars, snapVars, bootVars,
                   opsVars>>

\* A goroutine c calls IsDuplicate(data); the digest is computed.
DedupCall(c, data) ==
    /\ callers[c].pc = "idle"
    /\ callers' = [callers EXCEPT ![c] = [pc |-> "contains", data |-> data,
                                          dup |-> FALSE]]
    /\ UNCHANGED <<dedupVars, endVars, nodeVars, relayVars, admitVars,
                   statVars, ctlVars, clockVars, snapVars, bootVars,
                   opsVars>>

\* if d.cache.Contains(key) { return true }: Contains runs under the
\* cache's own lock, which is released before Add is called.
DedupContains(c) ==
    /\ callers[c].pc = "contains"
    /\ callers' = [callers EXCEPT
                     ![c].pc = IF LruContains(dedup, Sum256(callers[c].data))
                               THEN "returned" ELSE "add",
                     ![c].dup = LruContains(dedup, Sum256(callers[c].data))]
    /\ UNCHANGED <<dedupVars, endVars, nodeVars, relayVars, admitVars,
                   statVars, ctlVars, clockVars, snapVars, bootVars,
                   opsVars>>

\* d.cache.Add(key, true); return false.
DedupAdd(c) ==
    /\ callers[c].pc = "add"
    /\ dedup' = LruAdd(dedup, dedupSize, Sum256(callers[c].data))
    /\ callers' = [callers EXCEPT ![c].pc = "returned"]
    /\ UNCHANGED <<dedupSize, calls, endVars, nodeVars, relayVars, admitVars,
                   statVars, ctlVars, clockVars, snapVars, bootVars,
                   opsVars>>

\* ------------------------------------------------------------ the transport

Ends == DOMAIN conn

\* The far side of e's connection has closed it.
RemoteClosed(e) ==
    IF conn[e].other # 0 THEN conn[conn[e].other].closed ELSE conn[e].remoteClosed

\* A defect of the transport: written bytes go in front of earlier ones.
ConnWriteFront(e, bytes) ==
    LET o == conn[e].other
    IN  [x \in DOMAIN conn |->
            IF x = e THEN [conn[x] EXCEPT !.written = bytes \o @]
            ELSE IF x = o /\ ~conn[x].closed THEN [conn[x] EXCEPT !.rx = bytes \o @]
            ELSE conn[x]]

\* conn.Write(bytes) by e succeeds: the bytes are on their way to the far
\* side (dropped there when the far side has closed already).
ConnWrite(e, bytes) ==
    LET o == conn[e].other
    IN  [x \in DOMAIN conn |->
            IF x = e THEN [conn[x] EXCEPT !.written = @ \o bytes]
            ELSE IF x = o /\ ~conn[x].closed THEN [conn[x] EXCEPT !.rx = @ \o bytes]
            ELSE conn[x]]

\* The outcomes of a conn.Write by e: TRUE = no error, FALSE = an error.  A
\* write on a connection e closed fails; a write to a far side that has
\* closed may still be accepted by the local TCP stack or fail.
WriteOutcomes(e) ==
    {ok \in BOOLEAN : IF ok THEN ~conn[e].closed
                             ELSE conn[e].closed \/ RemoteClosed(e)}

\* The outcomes of io.ReadFull(conn, buf) for n = len(buf) bytes by e:
\* "ok" when the bytes are there (at once for n = 0), "eof" when the far
\* side closed and nothing is left, "short" when it closed within the n
\* bytes, "closed" when e's own side of the connection is closed.  With
\* none of these the read blocks.
ReadOutcomes(e, n) ==
    IF n = 0 THEN {"ok"}
    ELSE IF conn[e].closed THEN {"closed"}
    ELSE IF Len(conn[e].rx) >= n THEN {"ok"}
    ELSE IF RemoteClosed(e) THEN (IF Len(conn[e].rx) = 0 THEN {"eof"} ELSE {"short"})
    ELSE {}

\* The n bytes a successful read returns.
ReadBytes(e, n) == SubSeq(conn[e].rx, 1, n)

\* The connection after a read of n bytes by e with the given outcome: the
\* bytes read are consumed, also those of a short read.
ConnRead(e, n, outcome) ==
    [conn EXCEPT ![e].rx =
        IF outcome = "ok" THEN SubSeq(@, n + 1, Len(@))
        ELSE IF outcome = "short" THEN <<>>
        ELSE @]

\* conn.Close() by e.
ConnClose(e) == [conn EXCEPT ![e].closed = TRUE]

\* --------------------------------------------------------------- Peer.Run

\* NewPeer(id, conn, networkKey).
NewPeer(id, networkKey) ==
    [ID |-> id, networkKey |-> networkKey, parentID |-> "",
     numChildren |-> 0, maxChildren |-> 0,
     SendChan |-> <<>>, recvBytes |-> 0, recvPkts |-> 0,
     sentBytes |-> 0, sentPkts |-> 0, errors |-> 0]

\* Where Run starts: the keyed handshake with a network key, the 500 ms
\* wait for the remote's key without one.
RunEntry(networkKey) == IF networkKey # NoKey THEN "hs_send_len" ELSE "hs_peek"

\* The goroutine state of an end whose Run is about to start.
NewRun(networkKey) ==
    [hpc |-> RunEntry(networkKey), remoteKeyLen |-> 0, remoteKey |-> <<>>,
     rpc |-> "off", length |-> 0, data |-> <<>>, spc |-> "off", sdata |-> <<>>,
     disc |-> 0]

\* A defect of the key comparison: only the lengths are compared.
KeyMatchesByLength(remoteKey, networkKey) == Len(remoteKey) = Len(networkKey)

\* string(remoteKey) != p.networkKey, negated.
KeyMatches(remoteKey, networkKey) == remoteKey = networkKey

\* A defect of the deferred deletion: the registry entry is left in place.
OnDisconnectKeep(reg, id) == reg

\* The deletion callback handleNewConn passes to Run: delete(s.peers, id).
OnDisconnect(reg, id) == [i \in DOMAIN reg \ {id} |-> reg[i]]

\* Keyed handshake: binary.Write(p.Conn, BigEndian, keyLen).
HsSendLen(e) ==
    /\ run[e].hpc = "hs_send_len"
    /\ \E ok \in WriteOutcomes(e) :
        IF ok
        THEN /\ conn' = ConnWrite(e, U32BE(Len(peer[e].networkKey)))
             /\ run' = [run EXCEPT ![e].hpc = "hs_send_key"]
        ELSE /\ run' = [run EXCEPT ![e].hpc = "ondisconnect"]
             /\ UNCHANGED conn
    /\ UNCHANGED <<peer, nodeVars, otherVars>>

\* Keyed handshake: p.Conn.Write([]byte(p.networkKey)).
HsSendKey(e) ==
    /\ run[e].hpc = "hs_send_key"
    /\ \E ok \in WriteOutcomes(e) :
        IF ok
        THEN /\ conn' = ConnWrite(e, peer[e].networkKey)
             /\ run' = [run EXCEPT ![e].hpc = "hs_read_len"]
        ELSE /\ run' = [run EXCEPT ![e].hpc = "ondisconnect"]
             /\ UNCHANGED conn
    /\ UNCHANGED <<peer, nodeVars, otherVars>>

\* Keyed handshake: binary.Read(p.Conn, BigEndian, &remoteKeyLen) and the
\* check remoteKeyLen > 256.
HsReadLen(e) ==
    /\ run[e].hpc = "hs_read_len"
    /\ \E outcome \in ReadOutcomes(e, 4) :
        /\ conn' = ConnRead(e, 4, outcome)
        /\ IF outcome = "ok"
           THEN LET n == FromU32BE(ReadBytes(e, 4))
                IN  run' = [run EXCEPT ![e].remoteKeyLen = n,
                                       ![e].hpc = IF n > MaxKeyLen
                                                  THEN "ondisconnect"
                                                  ELSE "hs_read_key"]
           ELSE run' = [run EXCEPT ![e].hpc = "ondisconnect"]
    /\ UNCHANGED <<peer, nodeVars, otherVars>>

\* Keyed handshake: io.ReadFull(p.Conn, remoteKey) and the comparison with
\* the local key.
HsReadKey(e) ==
    /\ run[e].hpc = "hs_read_key"
    /\ \E outcome \in ReadOutcomes(e, run[e].remoteKeyLen) :
        /\ conn' = ConnRead(e, run[e].remoteKeyLen, outcome)
        /\ IF outcome = "ok"
           THEN LET k == ReadBytes(e, run[e].remoteKeyLen)
                IN  run' = [run EXCEPT ![e].remoteKey = k,
                                       ![e].hpc = IF KeyMatches(k, peer[e].networkKey)
                                                  THEN "spawn"
                                                  ELSE "ondisconnect"]
           ELSE run' = [run EXCEPT ![e].hpc = "ondisconnect"]
    /\ UNCHANGED <<peer, nodeVars, otherVars>>

\* No local key: SetReadDeadline(500 ms), binary.Read(&remoteKeyLen), clear
\* the deadline.  The read returns the length when four bytes arrive in
\* time; otherwise it ends with an error (the deadline passed, the far side
\* closed, the connection is closed) and has consumed what had arrived.
HsPeek(e) ==
    /\ run[e].hpc = "hs_peek"
    /\ \E outcome \in ReadOutcomes(e, 4) \cup
                       (IF Len(conn[e].rx) < 4 THEN {"short"} ELSE {}) :
        /\ conn' = ConnRead(e, 4, outcome)
        /\ IF outcome = "ok"
           THEN run' = [run EXCEPT ![e].remoteKeyLen = FromU32BE(ReadBytes(e, 4)),
                                   ![e].hpc = "hs_discard"]
           ELSE run' = [run EXCEPT ![e].hpc = "spawn"]
    /\ UNCHANGED <<peer, nodeVars, otherVars>>

\* No local key, the remote sent a key length: when it is at most 256,
\* io.ReadFull(p.Conn, remoteKey) with the result ignored.
HsDiscard(e) ==
    /\ run[e].hpc = "hs_discard"
    /\ IF run[e].remoteKeyLen <= MaxKeyLen
       THEN \E outcome \in ReadOutcomes(e, run[e].remoteKeyLen) :
                conn' = ConnRead(e, run[e].remoteKeyLen, outcome)
       ELSE UNCHANGED conn
    /\ run' = [run EXCEPT ![e].hpc = "hs_reply"]
    /\ UNCHANGED <<peer, nodeVars, otherVars>>

\* No local key, the remote sent a key length: binary.Write(uint32(0)) with
\* the result ignored.
HsReply(e) ==
    /\ run[e].hpc = "hs_reply"
    /\ \E ok \in WriteOutcomes(e) :
        IF ok THEN conn' = ConnWrite(e, U32BE(0)) ELSE UNCHANGED conn
    /\ run' = [run EXCEPT ![e].hpc = "spawn"]
    /\ UNCHANGED <<peer, nodeVars, otherVars>>

\* The handshake is over: the receiver and the sender goroutine start and
\* Run waits for both (wg.Wait).
Spawn(e) ==
    /\ run[e].hpc = "spawn"
    /\ run' = [run EXCEPT ![e].hpc = "wait", ![e].rpc = "read_len",
                          ![e].spc = "select"]
    /\ UNCHANGED <<peer, conn, nodeVars, otherVars>>

\* Receiver: binary.Read(&length).  An error other than io.EOF counts in
\* p.errors; a length above 2000 ends the receiver.
RecvLen(e) ==
    /\ run[e].rpc = "read_len"
    /\ \E outcome \in ReadOutcomes(e, 4) :
        /\ conn' = ConnRead(e, 4, outcome)
        /\ IF outcome = "ok"
           THEN LET n == FromU32BE(ReadBytes(e, 4))
                IN  /\ run' = [run EXCEPT ![e].length = n,
                                          ![e].rpc = IF n > MaxFrame
                                                     THEN "done"
                                                     ELSE "read_data"]
                    /\ UNCHANGED peer
           ELSE /\ run' = [run EXCEPT ![e].rpc = "done"]
                /\ peer' = [peer EXCEPT ![e].errors =
                                IF outcome # "eof" THEN @ + 1 ELSE @]
    /\ UNCHANGED <<nodeVars, otherVars>>

\* Receiver: io.ReadFull(p.Conn, data), then recvBytes += length and
\* recvPkts += 1; an error ends the receiver.
RecvData(e) ==
    /\ run[e].rpc = "read_data"
    /\ \E outcome \in ReadOutcomes(e, run[e].length) :
        /\ conn' = ConnRead(e, run[e].length, outcome)
        /\ IF outcome = "ok"
           THEN /\ run' = [run EXCEPT ![e].data = ReadBytes(e, run[e].length),
                                      ![e].rpc = "publish"]
                /\ peer' = [peer EXCEPT ![e].recvBytes = @ + run[e].length,
                                        ![e].recvPkts = @ + 1]
           ELSE /\ run' = [run EXCEPT ![e].rpc = "done"]
                /\ UNCHANGED peer
    /\ UNCHANGED <<nodeVars, otherVars>>

\* The context of dialer d is cancelled.
DialerCtxDone(d) ==
    IF dialer[d].ctx = "server" THEN ctxDone[1]
    ELSE dialer[d].ctx = "request_done"

\* The context Run(ctx) of connection e was given is cancelled: the context
\* of the connectToPeer goroutine that dialed e (connectToPeer hands its
\* own ctx to handleNewConn and that to Run), else the root context of the
\* node.  No two goroutines dial the same connection.
RunCtxDone(e) ==
    IF \E d \in DOMAIN dialer : dialer[d].e = e
    THEN DialerCtxDone(CHOOSE d \in DOMAIN dialer : dialer[d].e = e)
    ELSE ctxDone[conn[e].node]

\* Receiver: select { case <-ctx.Done(): return; case relayChan <- data: }.
RecvPublish(e) ==
    /\ run[e].rpc = "publish"
    /\ \E branch \in {b \in {"done", "send"} :
                        IF b = "done" THEN RunCtxDone(e)
                        ELSE Len(peerRelayChan[conn[e].node]) < ChanCap} :
        IF branch = "done"
        THEN /\ run' = [run EXCEPT ![e].rpc = "done"]
             /\ UNCHANGED peerRelayChan
        ELSE /\ run' = [run EXCEPT ![e].rpc = "read_len"]
             /\ peerRelayChan' = [peerRelayChan EXCEPT ![conn[e].node] =
                                      Append(@, run[e].data)]
    /\ UNCHANGED <<peer, conn, peers, ctxDone, otherVars>>

\* Sender: select { case <-ctx.Done(): return; case data := <-p.SendChan: }.
SendSelect(e) ==
    /\ run[e].spc = "select"
    /\ \E branch \in {b \in {"done", "recv"} :
                        IF b = "done" THEN RunCtxDone(e)
                        ELSE peer[e].SendChan # <<>>} :
        IF branch = "done"
        THEN /\ run' = [run EXCEPT ![e].spc = "done"]
             /\ UNCHANGED peer
        ELSE /\ run' = [run EXCEPT ![e].spc = "write_len",
                                   ![e].sdata = Head(peer[e].SendChan)]
             /\ peer' = [peer EXCEPT ![e].SendChan = Tail(@)]
    /\ UNCHANGED <<conn, nodeVars, otherVars>>

\* Sender: binary.Write(uint32(len(data))); an error ends the sender.
SendWriteLen(e) ==
    /\ run[e].spc = "write_len"
    /\ \E ok \in WriteOutcomes(e) :
        IF ok
        THEN /\ conn' = ConnWrite(e, U32BE(Len(run[e].sdata)))
             /\ run' = [run EXCEPT ![e].spc = "write_data"]
        ELSE /\ run' = [run EXCEPT ![e].spc = "done"]
             /\ UNCHANGED conn
    /\ UNCHANGED <<peer, nodeVars, otherVars>>

\* Sender: p.Conn.Write(data), then sentBytes += len(data), sentPkts += 1;
\* an error ends the sender.
SendWriteData(e) ==
    /\ run[e].spc = "write_data"
    /\ \E ok \in WriteOutcomes(e) :
        IF ok
        THEN /\ conn' = ConnWrite(e, run[e].sdata)
             /\ run' = [run EXCEPT ![e].spc = "select"]
             /\ peer' = [peer EXCEPT ![e].sentBytes = @ + Len(run[e].sdata),
                                     ![e].sentPkts = @ + 1]
        ELSE /\ run' = [run EXCEPT ![e].spc = "done"]
             /\ UNCHANGED <<conn, peer>>
    /\ UNCHANGED <<nodeVars, otherVars>>

\* wg.Wait() returns once both goroutines have ended; Run returns and its
\* deferred calls run, last registered first.
Wait(e) ==
    /\ run[e].hpc = "wait"
    /\ run[e].rpc = "done" /\ run[e].spc = "done"
    /\ run' = [run EXCEPT ![e].hpc = "ondisconnect"]
    /\ UNCHANGED <<peer, conn, nodeVars, otherVars>>

\* A defect of Run: it returns without the deferred onDisconnect.
RunOnDisconnectSkipped(e) ==
    /\ run[e].hpc = "ondisconnect"
    /\ run' = [run EXCEPT ![e].hpc = "close"]
    /\ UNCHANGED <<peer, conn, nodeVars, otherVars>>

\* defer onDisconnect(p.ID): the server deletes the registry entry of the
\* ID; disc counts the invocations of the callback.
RunOnDisconnect(e) ==
    /\ run[e].hpc = "ondisconnect"
    /\ peers' = [peers EXCEPT ![conn[e].node] = OnDisconnect(@, peer[e].ID)]
    /\ run' = [run EXCEPT ![e].hpc = "close", ![e].disc = @ + 1]
    /\ UNCHANGED <<peer, conn, peerRelayChan, ctxDone, otherVars>>

\* defer p.Conn.Close().
RunClose(e) ==
    /\ run[e].hpc = "close"
    /\ conn' = ConnClose(e)
    /\ run' = [run EXCEPT ![e].hpc = "done"]
    /\ UNCHANGED <<peer, nodeVars, otherVars>>

\* The steps of Peer.Run and its goroutines for end e.
RunStep(e) ==
    \/ HsSendLen(e) \/ HsSendKey(e) \/ HsReadLen(e) \/ HsReadKey(e)
    \/ HsPeek(e) \/ HsDiscard(e) \/ HsReply(e)
    \/ Spawn(e)
    \/ RecvLen(e) \/ RecvData(e) \/ RecvPublish(e)
    \/ SendSelect(e) \/ SendWriteLen(e) \/ SendWriteData(e)
    \/ Wait(e) \/ RunOnDisconnect(e) \/ RunClose(e)

\* The steps Run can take after the handshake.
ServeRunStep(e) ==
    \/ RecvLen(e) \/ RecvData(e) \/ RecvPublish(e)
    \/ SendSelect(e) \/ SendWriteLen(e) \/ SendWriteData(e)
    \/ Wait(e) \/ RunOnDisconnect(e) \/ RunClose(e)

\* ----------------------------------------------------------------- Server

\* The ends registered at server n.
Registered(n) == {peers[n][i] : i \in DOMAIN peers[n]}

\* A defect of broadcastToPeers: one full queue keeps the frame from every
\* peer.
BroadcastToPeersAllOrNone(n, data) ==
    [e \in DOMAIN peer |->
        IF /\ e \in Registered(n)
           /\ \A o \in Registered(n) : Len(peer[o].SendChan) < ChanCap
        THEN [peer[e] EXCEPT !.SendChan = Append(@, data)]
        ELSE peer[e]]

\* A defect of broadcastToPeers: the frame is sent to each queue a second
\* time.
BroadcastToPeersTwice(n, data) ==
    [e \in DOMAIN peer |->
        IF e \in Registered(n) /\ Len(peer[e].SendChan) < ChanCap
        THEN [peer[e] EXCEPT !.SendChan = Append(Append(@, data), data)]
        ELSE peer[e]]

\* Server.broadcastToPeers(data): a non-blocking send to the SendChan of
\* every registered peer; a full queue drops the frame for that peer.
BroadcastToPeers(n, data) ==
    [e \in DOMAIN peer |->
        IF e \in Registered(n) /\ Len(peer[e].SendChan) < ChanCap
        THEN [peer[e] EXCEPT !.SendChan = Append(@, data)]
        ELSE peer[e]]

\* The root context of server n is cancelled.
Cancel(n) ==
    /\ ~ctxDone[n]
    /\ ctxDone' = [ctxDone EXCEPT ![n] = TRUE]
    /\ UNCHANGED <<endVars, peers, peerRelayChan, otherVars>>

\* -------------------------------------------------- the admission path

\* The connections of SpecAdmit reach server 1 (10.0.0.1:8787): 1 is inbound,
\* made by a client on host 10.0.0.2; 2 is dialed by server 1 to a
\* configured peer address on that host as well.  (Connection 4 is a second
\* inbound one, from host 10.0.0.4; every other connection is one to the
\* peer address 10.0.0.3:8787.)
AdmitInbound == {1}
AdmitDialed == {2}
AdmitEnds == AdmitInbound \cup AdmitDialed

\* conn.RemoteAddr().String() of connection e.
RemoteAddr(e) ==
    IF e = 1 THEN "10.0.0.2:40001"
    ELSE IF e = 2 THEN "10.0.0.2:8787"
    ELSE IF e = 4 THEN "10.0.0.4:40004"
    ELSE IF e >= 6 THEN "[::1]:90"
    ELSE "10.0.0.3:8787"

\* net.SplitHostPort(peerID), the host part, on the addresses above.
SplitHostPort(id) ==
    IF id \in {"10.0.0.2:40001", "10.0.0.2:8787"} THEN "10.0.0.2"
    ELSE IF id = "10.0.0.3:8787" THEN "10.0.0.3"
    ELSE IF id = "10.0.0.4:40004" THEN "10.0.0.4"
    ELSE IF id = "[::1]:90" THEN "::1"
    ELSE ""

\* Connection e is on a deny-list as it arrives: its id is in
\* s.cfg.BannedIDs or its host is in s.cfg.BannedHosts.
OnDenyList(e) ==
    \/ RemoteAddr(e) \in Range(cfg.BannedIDs)
    \/ SplitHostPort(RemoteAddr(e)) \in Range(cfg.BannedHosts)

\* Connection e is on a deny-list as it arrives and a BanPeer call that
\* has returned named its id or its host.
BannedOnArrival(e) ==
    /\ OnDenyList(e)
    /\ \E c \in DOMAIN ban :
           /\ ban[c].pc = "returned"
           /\ \/ ban[c].id = RemoteAddr(e)
              \/ ban[c].ip = SplitHostPort(RemoteAddr(e))

\* A connection that has not arrived yet: handleNewConn has not been called.
NotArrived ==
    [pc |-> "pending", banned |-> FALSE, localChildren |-> 0,
     maxChildren |-> 0]

\* handleNewConn is running for connection e (Run included).
InHandleNewConn(e) == hnc[e].pc \notin {"pending", "returned"}

\* listenPeers: conn := listener.Accept(); s.handleNewConn(ctx, conn, ...),
\* with the clients of the connections in inbound trying to connect.
\* The loop calls handleNewConn itself, so the next Accept happens when the
\* previous connection's handleNewConn has returned.  Accept returns
\* connections as long as the listener is open; the context is not looked
\* at here.
AcceptFrom(inbound, e) ==
    /\ e \in inbound
    /\ hnc[e].pc = "pending"
    /\ boot.listen = "listening"
    /\ \A o \in inbound : ~InHandleNewConn(o)
    /\ hnc' = [hnc EXCEPT ![e] = [pc |-> "ban_ids",
                                   banned |-> BannedOnArrival(e),
                                   localChildren |-> 0,
                                   maxChildren |-> 0]]
    /\ UNCHANGED <<cfg, ban, admitLog, endVars, nodeVars, dedupVars, relayVars,
                   statVars, restVars>>

\* listenPeers, its second goroutine: <-ctx.Done(); listener.Close().
ListenerClose ==
    /\ boot.listen = "listening"
    /\ ctxDone[1]
    /\ boot' = [boot EXCEPT !.listen = "closed"]
    /\ UNCHANGED <<dedupVars, endVars, nodeVars, relayVars, admitVars,
                   statVars, ctlVars, callVars, clockVars, snapVars,
                   opsVars>>

\* listenPeers, the accept loop on a closed listener: Accept returns an
\* error, ctx.Done() is ready and the goroutine returns.
ListenReturn(inbound) ==
    /\ boot.listen = "closed"
    /\ \A o \in inbound : ~InHandleNewConn(o)
    /\ boot' = [boot EXCEPT !.listen = "returned"]
    /\ UNCHANGED <<dedupVars, endVars, nodeVars, relayVars, admitVars,
                   statVars, ctlVars, callVars, clockVars, snapVars,
                   opsVars>>

\* The listener of SpecAdmit and SpecBan, with their one inbound connection.
Accept(e) == AcceptFrom(AdmitInbound, e)

\* handleNewConn: for _, b := range s.cfg.BannedIDs { if b == peerID {
\* conn.Close(); return } }.
HncBanIDs(e) ==
    /\ hnc[e].pc = "ban_ids"
    /\ IF RemoteAddr(e) \in Range(cfg.BannedIDs)
       THEN /\ conn' = ConnClose(e)
            /\ hnc' = [hnc EXCEPT ![e].pc = "returned"]
       ELSE /\ hnc' = [hnc EXCEPT ![e].pc = "ban_hosts"]
            /\ UNCHANGED conn
    /\ UNCHANGED <<cfg, ban, admitLog, peer, run, nodeVars, dedupVars, relayVars, statVars, restVars>>

\* handleNewConn: for _, b := range s.cfg.BannedHosts { if b == ip {
\* conn.Close(); return } }.  BanPeer appends to the lists without the
\* lock this loop holds, so its append can fall between the two loops.
HncBanHosts(e) ==
    /\ hnc[e].pc = "ban_hosts"
    /\ IF SplitHostPort(RemoteAddr(e)) \in Range(cfg.BannedHosts)
       THEN /\ conn' = ConnClose(e)
            /\ hnc' = [hnc EXCEPT ![e].pc = "returned"]
       ELSE /\ hnc' = [hnc EXCEPT ![e].pc = "child_count"]
            /\ UNCHANGED conn
    /\ UNCHANGED <<cfg, ban, admitLog, peer, run, nodeVars, dedupVars, relayVars, statVars, restVars>>

\* handleNewConn, under s.peersMu.RLock: the number of registered peers
\* whose ParentID is "Local".
LocalChildren ==
    Cardinality({i \in DOMAIN peers[1] : peer[peers[1][i]].parentID = "Local"})

\* handleNewConn: localChildren is counted and the read lock is released.
HncChildCount(e) ==
    /\ hnc[e].pc = "child_count"
    /\ hnc' = [hnc EXCEPT ![e].pc = "child_check",
                           ![e].localChildren = LocalChildren]
    /\ UNCHANGED <<cfg, ban, admitLog, endVars, nodeVars, dedupVars, relayVars,
                   statVars, restVars>>

\* handleNewConn, no lock held: if localChildren >= s.cfg.MaxChildren {
\* conn.Close(); return }.
HncChildCheck(e) ==
    /\ hnc[e].pc = "child_check"
    /\ IF hnc[e].localChildren >= cfg.MaxChildren
       THEN /\ conn' = ConnClose(e)
            /\ hnc' = [hnc EXCEPT ![e].pc = "returned",
                                   ![e].localChildren = 0]
       ELSE /\ hnc' = [hnc EXCEPT ![e].pc = "new_peer",
                                   ![e].localChildren = 0,
                                   ![e].maxChildren = cfg.MaxChildren]
            /\ UNCHANGED conn
    /\ UNCHANGED <<cfg, ban, admitLog, peer, run, nodeVars, dedupVars,
                   relayVars, statVars, restVars>>

\* handleNewConn, no lock held: p := peer.NewPeer(peerID, conn,
\* s.cfg.NetworkKey).  The peer is built and not yet registered.
HncNewPeer(e) ==
    /\ hnc[e].pc = "new_peer"
    /\ peer' = (e :> NewPeer(RemoteAddr(e), cfg.NetworkKey)) @@ peer
    /\ hnc' = [hnc EXCEPT ![e].pc = "insert"]
    /\ UNCHANGED <<cfg, ban, admitLog, run, conn, nodeVars, dedupVars,
                   relayVars, statVars, restVars>>

\* handleNewConn, under s.peersMu.Lock: s.peers[peerID] = p; after the
\* unlock p.Run(...) is entered.
HncInsert(e) ==
    /\ hnc[e].pc = "insert"
    /\ run' = (e :> NewRun(peer[e].networkKey)) @@ run
    /\ peers' = [peers EXCEPT ![1] = (RemoteAddr(e) :> e) @@ @]
    /\ hnc' = [hnc EXCEPT ![e].pc = "run", ![e].maxChildren = 0]
    /\ admitLog' = Append(admitLog,
                     [id |-> RemoteAddr(e),
                      bannedIDs |-> cfg.BannedIDs,
                      bannedHosts |-> cfg.BannedHosts,
                      maxChildren |-> hnc[e].maxChildren,
                      size |-> Cardinality(DOMAIN peers'[1])])
    /\ UNCHANGED <<cfg, ban, peer, conn, peerRelayChan, ctxDone,
                   dedupVars, relayVars, statVars, restVars>>

\* handleNewConn returns when Run has returned.
HncReturn(e) ==
    /\ hnc[e].pc = "run"
    /\ run[e].hpc = "done"
    /\ hnc' = [hnc EXCEPT ![e].pc = "returned"]
    /\ UNCHANGED <<cfg, ban, admitLog, endVars, nodeVars, dedupVars, relayVars, statVars, restVars>>

\* The fields of config.Config the model follows, as the file holds them
\* for a configuration at rest.  The sort configuration is kept in stats
\* and cfg.Peers in addp.  config.Config declares no field for the network
\* key, so nothing of s.cfg.NetworkKey reaches the file.
MarshalConfig(c, st, ap) ==
    [Peers |-> ap.peers, SortField |-> st.field, SortReverse |-> st.reverse,
     BannedHosts |-> c.BannedHosts, BannedIDs |-> c.BannedIDs,
     AdminPass |-> c.AdminPass, MaxChildren |-> c.MaxChildren]

\* config.SaveConfig(path, cfg), its first statement: json.MarshalIndent
\* reads the fields of *cfg one after the other, in the order in which the
\* struct declares them, with no lock held; the writers of the
\* configuration hold none either, so a store can fall between two of the
\* reads and the data is then a mix of the configuration before and after
\* it.
MarshalOrder ==
    <<"Peers", "SortField", "SortReverse", "BannedHosts", "BannedIDs",
      "AdminPass", "MaxChildren">>

\* Nothing read yet.
NoFields == <<>>

\* The encoder, having read the fields in data, reads the next one.
MarshalField(data) ==
    LET name == MarshalOrder[Cardinality(DOMAIN data) + 1]
    IN  [f \in DOMAIN data \cup {name} |->
           IF f = name THEN MarshalConfig(cfg, stats, addp)[name]
           ELSE data[f]]

\* The encoder has read every field: json.MarshalIndent returns.
Marshalled(data) == Cardinality(DOMAIN data) = Len(MarshalOrder)

\* The --config default of main.
DefaultConfigPath == "/etc/ipxtransporter.json"

\* Nothing marshalled.
NoData == [none |-> TRUE]

\* The bytes of a string of the model, and of an integer printed in
\* decimal.
StrLen(str) ==
    CASE str = "" -> 0
      [] str \in {"id", "ip"} -> 2
      [] str = "tui" -> 3
      [] str = "admin" -> 5
      [] str \in {"10.0.0.2", "10.0.0.3", "10.0.0.4"} -> 8
      [] str \in {"10.0.0.2:8787", "10.0.0.3:8787"} -> 13
      [] str \in {"10.0.0.2:40001", "10.0.0.4:40004"} -> 14

RECURSIVE Digits(_)
Digits(n) ==
    IF n < 0 THEN 1 + Digits(0 - n)
    ELSE IF n < 10 THEN 1 ELSE 1 + Digits(n \div 10)

\* json.MarshalIndent(cfg, "", "  ") of a configuration whose AdminPass
\* and SortField are empty, without the bytes of the values of its lists,
\* of max_children and of sort_reverse: the braces, the eighteen keys of
\* config.Config and the values DefaultConfig gives the fields the model
\* does not follow.
FixedBytes == 403

\* The bytes of a list of strings in that layout, of n elements with these
\* lengths: [] when empty, else each element on a line of its own,
\* indented by four spaces, and the closing bracket by two.
ListBytes(lens) ==
    IF Len(lens) = 0 THEN 2
    ELSE LET RECURSIVE sum(_)
             sum(i) == IF i = 0 THEN 0 ELSE lens[i] + 8 + sum(i - 1)
         IN  4 + sum(Len(lens))

\* len(data) for the marshalled configuration data.
Size(data) ==
    FixedBytes
        + ListBytes([i \in 1..Len(data.Peers) |-> Len(data.Peers[i])])
        + StrLen(data.SortField)
        + (IF data.SortReverse THEN 4 ELSE 5)
        + ListBytes([i \in 1..Len(data.BannedHosts) |->
                        StrLen(data.BannedHosts[i])])
        + ListBytes([i \in 1..Len(data.BannedIDs) |->
                        StrLen(data.BannedIDs[i])])
        + StrLen(data.AdminPass)
        + Digits(data.MaxChildren)

\* No file; a file of no bytes; the file that holds data and nothing else.
NoFile == [exists |-> FALSE, pieces |-> <<>>]
EmptyFile == [exists |-> TRUE, pieces |-> <<>>]
FileOf(data) ==
    [exists |-> TRUE, pieces |-> <<[data |-> data, upto |-> Size(data)]>>]

\* A goroutine that is not in UpdateDemoProps.
NoDemoUpdate ==
    [pc |-> "idle", dropRate |-> 0, errorRate |-> 0, numPeers |-> 0]

\* NewServer: the demo properties 15, 3, 10 and 5; runDemo is not running
\* and nobody calls UpdateDemoProps.
NoDemo ==
    [pc |-> "off", tick |-> FALSE, packetRate |-> 15, dropRate |-> 3,
     errorRate |-> 10, numPeers |-> 5, n |-> 0, set |-> <<>>, updates |-> 0]

\* A goroutine that has not called UpdateConfig, and the TUI with no
\* callback running.
NoUpdate == [pc |-> "idle", maxChildren |-> 0, networkKey |-> NoKey,
             data |-> NoData]
TUIIdle == [pc |-> "idle", data |-> NoData, saves |-> 0]

\* relay.NewServer(cfg, ""), as the tests make it: there is no file, and no
\* UpdateConfig call and no TUI.
NoConfigFile ==
    /\ configPath = ""
    /\ configFile = NoFile
    /\ upd = <<>>
    /\ tui = TUIIdle
    /\ demo = NoDemo

\* main: config.LoadConfig(*configPath) and relay.NewServer(cfg,
\* *configPath): the file holds the configuration the server runs with.
ConfigLoaded ==
    /\ configPath = DefaultConfigPath
    /\ configFile = FileOf(MarshalConfig(cfg, stats, addp))
    /\ demo = NoDemo

\* config.SaveConfig, its second statement: os.WriteFile(path, data, 0644)
\* opens the file with O_WRONLY|O_CREATE|O_TRUNC, writes the data and
\* closes the file.  The savers are not serialised, so the steps of two
\* calls interleave.  The opening ends with an error (as with the path ""),
\* which leaves the file as it was and ends the call, or with the file
\* made or emptied.
OpenOutcomes ==
    IF configPath = "" THEN {"error"} ELSE {"ok", "error"}

OpenFile(outcome) ==
    configFile' = IF outcome = "ok" THEN EmptyFile ELSE configFile

\* f.Write(data) and f.Close(): the bytes go to the file from offset 0 on,
\* over what another call has written since the file was opened; what lies
\* beyond them stays.  All of the data is written, or, with an error, less;
\* of the lengths a failing write leaves the model follows the two ends,
\* none and (the error being that of Close) all.
WrittenLengths(data) == {0, Size(data)}

WriteFile(data, n) ==
    configFile' =
        [exists |-> TRUE,
         pieces |-> IF n = 0 THEN configFile.pieces
                    ELSE <<[data |-> data, upto |-> n]>>
                         \o SelectSeq(configFile.pieces,
                                      LAMBDA piece : piece.upto > n)]

\* Goroutine u (the handler of an API request) calls
\* Server.UpdateConfig(adminPass, maxChildren, networkKey): if adminPass !=
\* "" { s.cfg.AdminPass = adminPass }.  No lock is held in UpdateConfig.
UpdateConfig(u, adminPass, maxChildren, networkKey) ==
    /\ upd[u].pc = "idle"
    /\ cfg' = [cfg EXCEPT !.AdminPass = IF adminPass # "" THEN adminPass
                                        ELSE @]
    /\ upd' = [upd EXCEPT ![u] = [pc |-> "max_children",
                                  maxChildren |-> maxChildren,
                                  networkKey |-> networkKey,
                                  data |-> NoData]]
    /\ UNCHANGED <<hnc, ban, admitLog, endVars, nodeVars, dedupVars, relayVars,
                   statVars, procVars, fileVars, tui, demoVars>>

\* UpdateConfig: if maxChildren > 0 { s.cfg.MaxChildren = maxChildren }.
UpdateConfigMaxChildren(u) ==
    /\ upd[u].pc = "max_children"
    /\ cfg' = [cfg EXCEPT !.MaxChildren = IF upd[u].maxChildren > 0
                                          THEN upd[u].maxChildren ELSE @]
    /\ upd' = [upd EXCEPT ![u].pc = "network_key"]
    /\ UNCHANGED <<hnc, ban, admitLog, endVars, nodeVars, dedupVars, relayVars,
                   statVars, procVars, fileVars, tui, demoVars>>

\* UpdateConfig: if networkKey != "" { s.cfg.NetworkKey = networkKey }.
UpdateConfigNetworkKey(u) ==
    /\ upd[u].pc = "network_key"
    /\ cfg' = [cfg EXCEPT !.NetworkKey = IF upd[u].networkKey # NoKey
                                         THEN upd[u].networkKey ELSE @]
    /\ upd' = [upd EXCEPT ![u].pc = "persist"]
    /\ UNCHANGED <<hnc, ban, admitLog, endVars, nodeVars, dedupVars, relayVars,
                   statVars, procVars, fileVars, tui, demoVars>>

\* UpdateConfig: s.persistConfig(): if s.configPath != "" {
\* config.SaveConfig(s.configPath, s.cfg) }, up to the first field the
\* marshalling reads; with the path "" the call returns.
UpdateConfigPersist(u) ==
    /\ upd[u].pc = "persist"
    /\ upd' = [upd EXCEPT ![u] =
                 IF configPath = "" THEN NoUpdate
                 ELSE [@ EXCEPT !.pc = "marshal",
                                !.data = MarshalField(NoFields)]]
    /\ UNCHANGED <<admitVars, endVars, nodeVars, dedupVars, relayVars,
                   statVars, procVars, fileVars, tui, demoVars>>

\* UpdateConfig: the marshalling reads its next field; after the last one
\* the data is complete.
UpdateConfigMarshal(u) ==
    /\ upd[u].pc = "marshal"
    /\ LET data == MarshalField(upd[u].data)
       IN  upd' = [upd EXCEPT ![u].data = data,
                              ![u].pc = IF Marshalled(data) THEN "open"
                                        ELSE "marshal"]
    /\ UNCHANGED <<admitVars, endVars, nodeVars, dedupVars, relayVars,
                   statVars, procVars, fileVars, tui, demoVars>>

\* UpdateConfig: the file is opened; after an error (it is logged) the
\* call returns.
UpdateConfigOpen(u) ==
    /\ upd[u].pc = "open"
    /\ \E outcome \in OpenOutcomes :
        /\ OpenFile(outcome)
        /\ upd' = [upd EXCEPT ![u] = IF outcome = "ok"
                                     THEN [@ EXCEPT !.pc = "write"]
                                     ELSE NoUpdate]
    /\ UNCHANGED <<admitVars, endVars, nodeVars, dedupVars, relayVars,
                   statVars, procVars, configPath, tui, demoVars>>

\* UpdateConfig: the file is written (an error is logged) and the call
\* returns.
UpdateConfigWrite(u) ==
    /\ upd[u].pc = "write"
    /\ \E n \in WrittenLengths(upd[u].data) : WriteFile(upd[u].data, n)
    /\ upd' = [upd EXCEPT ![u] = NoUpdate]
    /\ UNCHANGED <<admitVars, endVars, nodeVars, dedupVars, relayVars,
                   statVars, procVars, configPath, tui, demoVars>>

\* The steps of the UpdateConfig call of goroutine u.
UpdateConfigStep(u) ==
    \/ UpdateConfigMaxChildren(u) \/ UpdateConfigNetworkKey(u)
    \/ UpdateConfigPersist(u) \/ UpdateConfigMarshal(u)
    \/ UpdateConfigOpen(u) \/ UpdateConfigWrite(u)

\* The configuration editor of the TUI, its "Admin Password" field:
\* t.cfg.AdminPass = text, on the configuration the server holds.  Nothing
\* is saved.
ShowConfigEditorAdminPass(text) ==
    /\ tui.pc = "idle"
    /\ cfg' = [cfg EXCEPT !.AdminPass = text]
    /\ UNCHANGED <<hnc, ban, admitLog, endVars, nodeVars, dedupVars, relayVars,
                   statVars, restVars>>

\* The configuration editor of the TUI, its "Max Children" field:
\* fmt.Sscanf(text, "%d", &t.cfg.MaxChildren), for a text that is the
\* integer n.  Nothing is saved.
ShowConfigEditorMaxChildren(n) ==
    /\ tui.pc = "idle"
    /\ cfg' = [cfg EXCEPT !.MaxChildren = n]
    /\ UNCHANGED <<hnc, ban, admitLog, endVars, nodeVars, dedupVars, relayVars,
                   statVars, restVars>>

\* The save dialog of the TUI, its "System Wide" button:
\* config.SaveConfig(t.configPath, t.cfg), up to the first field the
\* marshalling reads.
ShowSaveDialogSave ==
    /\ tui.pc = "idle"
    /\ tui' = [pc |-> "marshal", data |-> MarshalField(NoFields),
               saves |-> tui.saves + 1]
    /\ UNCHANGED <<admitVars, endVars, nodeVars, dedupVars, relayVars,
                   statVars, procVars, fileVars, upd, demoVars>>

\* The save dialog: the marshalling reads its next field; after the last
\* one the data is complete.
ShowSaveDialogMarshal ==
    /\ tui.pc = "marshal"
    /\ LET data == MarshalField(tui.data)
       IN  tui' = [tui EXCEPT !.pc = IF Marshalled(data) THEN "open"
                                        ELSE "marshal",
                              !.data = data]
    /\ UNCHANGED <<admitVars, endVars, nodeVars, dedupVars, relayVars,
                   statVars, procVars, fileVars, upd, demoVars>>

\* The save dialog: the file is opened; after an error (it is shown) the
\* callback returns.
ShowSaveDialogOpen ==
    /\ tui.pc = "open"
    /\ \E outcome \in OpenOutcomes :
        /\ OpenFile(outcome)
        /\ tui' = IF outcome = "ok" THEN [tui EXCEPT !.pc = "write"]
                  ELSE [tui EXCEPT !.pc = "idle", !.data = NoData]
    /\ UNCHANGED <<admitVars, endVars, nodeVars, dedupVars, relayVars,
                   statVars, procVars, configPath, upd, demoVars>>

\* The save dialog: the file is written (an error is shown) and the
\* callback returns.
ShowSaveDialogWrite ==
    /\ tui.pc = "write"
    /\ \E n \in WrittenLengths(tui.data) : WriteFile(tui.data, n)
    /\ tui' = [tui EXCEPT !.pc = "idle", !.data = NoData]
    /\ UNCHANGED <<admitVars, endVars, nodeVars, dedupVars, relayVars,
                   statVars, procVars, configPath, upd, demoVars>>

\* Goroutine c (the handler of an API request, or the TUI) calls
\* BanPeer(id, ip); calls of different goroutines run at the same time.
BanPeer(c, id, ip) ==
    /\ ban[c].pc = "idle"
    /\ ban' = [ban EXCEPT ![c] = [pc |-> "lock", id |-> id, ip |-> ip,
                                  seen |-> <<>>, data |-> NoData]]
    /\ UNCHANGED <<cfg, hnc, admitLog, endVars, nodeVars, dedupVars, relayVars, statVars, restVars>>

\* BanPeer, under s.peersMu: if p, ok := s.peers[id]; ok { p.Conn.Close() }.
BanPeerClose(c) ==
    /\ ban[c].pc = "lock"
    /\ conn' = IF ban[c].id \in DOMAIN peers[1]
               THEN ConnClose(peers[1][ban[c].id]) ELSE conn
    /\ ban' = [ban EXCEPT ![c].pc = "ids"]
    /\ UNCHANGED <<cfg, hnc, admitLog, peer, run, nodeVars, dedupVars, relayVars, statVars, restVars>>

\* BanPeer, after the unlock: if id != "" { for _, b := range
\* s.cfg.BannedIDs { if b == id { found = true } } }.
BanPeerIDs(c) ==
    /\ ban[c].pc = "ids"
    /\ ban' = [ban EXCEPT ![c].pc =
                 IF ban[c].id # "" /\ ban[c].id \notin Range(cfg.BannedIDs)
                 THEN "ids_load" ELSE "hosts"]
    /\ UNCHANGED <<cfg, hnc, admitLog, endVars, nodeVars, dedupVars, relayVars, statVars, restVars>>

\* s.cfg.BannedIDs = append(s.cfg.BannedIDs, id), its right-hand side: the
\* slice is read.  No lock is held, so other calls can write the slice
\* before this one does.
BanPeerIDsLoad(c) ==
    /\ ban[c].pc = "ids_load"
    /\ ban' = [ban EXCEPT ![c].pc = "ids_store", ![c].seen = cfg.BannedIDs]
    /\ UNCHANGED <<cfg, hnc, admitLog, endVars, nodeVars, dedupVars, relayVars, statVars, restVars>>

\* s.cfg.BannedIDs = append(s.cfg.BannedIDs, id), the assignment: the slice
\* that was read, with id at its end, is stored.
BanPeerIDsStore(c) ==
    /\ ban[c].pc = "ids_store"
    /\ cfg' = [cfg EXCEPT !.BannedIDs = Append(ban[c].seen, ban[c].id)]
    /\ ban' = [ban EXCEPT ![c].pc = "hosts", ![c].seen = <<>>]
    /\ UNCHANGED <<hnc, admitLog, endVars, nodeVars, dedupVars, relayVars, statVars, restVars>>

\* BanPeer: if ip != "" { for _, b := range s.cfg.BannedHosts { if b == ip
\* { found = true } } }.
BanPeerHosts(c) ==
    /\ ban[c].pc = "hosts"
    /\ ban' = [ban EXCEPT ![c].pc =
                 IF ban[c].ip # "" /\ ban[c].ip \notin Range(cfg.BannedHosts)
                 THEN "hosts_load" ELSE "persist"]
    /\ UNCHANGED <<cfg, hnc, admitLog, endVars, nodeVars, dedupVars, relayVars, statVars, restVars>>

\* s.cfg.BannedHosts = append(s.cfg.BannedHosts, ip), its right-hand side.
BanPeerHostsLoad(c) ==
    /\ ban[c].pc = "hosts_load"
    /\ ban' = [ban EXCEPT ![c].pc = "hosts_store", ![c].seen = cfg.BannedHosts]
    /\ UNCHANGED <<cfg, hnc, admitLog, endVars, nodeVars, dedupVars, relayVars, statVars, restVars>>

\* s.cfg.BannedHosts = append(s.cfg.BannedHosts, ip), the assignment.
BanPeerHostsStore(c) ==
    /\ ban[c].pc = "hosts_store"
    /\ cfg' = [cfg EXCEPT !.BannedHosts = Append(ban[c].seen, ban[c].ip)]
    /\ ban' = [ban EXCEPT ![c].pc = "persist", ![c].seen = <<>>]
    /\ UNCHANGED <<hnc, admitLog, endVars, nodeVars, dedupVars, relayVars, statVars, restVars>>

\* BanPeer: s.persistConfig(): if s.configPath != "" {
\* config.SaveConfig(s.configPath, s.cfg) }, up to the first field the
\* marshalling reads; with the path "" the call returns.
BanPeerPersist(c) ==
    /\ ban[c].pc = "persist"
    /\ ban' = [ban EXCEPT ![c].pc = IF configPath = "" THEN "returned"
                                    ELSE "marshal",
                          ![c].data = IF configPath = "" THEN NoData
                                      ELSE MarshalField(NoFields)]
    /\ UNCHANGED <<cfg, hnc, admitLog, endVars, nodeVars, dedupVars, relayVars,
                   statVars, restVars>>

\* BanPeer: the marshalling reads its next field; after the last one the
\* data is complete.
BanPeerMarshal(c) ==
    /\ ban[c].pc = "marshal"
    /\ LET data == MarshalField(ban[c].data)
       IN  ban' = [ban EXCEPT ![c].data = data,
                              ![c].pc = IF Marshalled(data) THEN "open"
                                        ELSE "marshal"]
    /\ UNCHANGED <<cfg, hnc, admitLog, endVars, nodeVars, dedupVars, relayVars,
                   statVars, restVars>>

\* BanPeer: the file is opened; after an error (it is logged) the call
\* returns.
BanPeerOpen(c) ==
    /\ ban[c].pc = "open"
    /\ \E outcome \in OpenOutcomes :
        /\ OpenFile(outcome)
        /\ ban' = [ban EXCEPT ![c].pc = IF outcome = "ok" THEN "write"
                                        ELSE "returned",
                              ![c].data = IF outcome = "ok" THEN @
                                          ELSE NoData]
    /\ UNCHANGED <<cfg, hnc, admitLog, endVars, nodeVars, dedupVars, relayVars,
                   statVars, procVars, configPath, writerVars, demoVars>>

\* BanPeer: the file is written (an error is logged) and the call returns.
BanPeerWrite(c) ==
    /\ ban[c].pc = "write"
    /\ \E n \in WrittenLengths(ban[c].data) : WriteFile(ban[c].data, n)
    /\ ban' = [ban EXCEPT ![c].pc = "returned", ![c].data = NoData]
    /\ UNCHANGED <<cfg, hnc, admitLog, endVars, nodeVars, dedupVars, relayVars,
                   statVars, procVars, configPath, writerVars, demoVars>>

\* The steps of the BanPeer call of goroutine c.
BanPeerStep(c) ==
    \/ BanPeerClose(c) \/ BanPeerIDs(c) \/ BanPeerIDsLoad(c)
    \/ BanPeerIDsStore(c) \/ BanPeerHosts(c) \/ BanPeerHostsLoad(c)
    \/ BanPeerHostsStore(c) \/ BanPeerPersist(c) \/ BanPeerMarshal(c)
    \/ BanPeerOpen(c) \/ BanPeerWrite(c)

\* A connection just established: nothing written, both sides open.
FreshConn ==
    [node |-> 1, other |-> 0, rx |-> <<>>, written |-> <<>>,
     closed |-> FALSE, remoteClosed |-> FALSE]

\* f without its entry for e.
Without(f, e) == [x \in DOMAIN f \ {e} |-> f[x]]

\* go s.connectToPeer(ctx, addr, relayChan): the new goroutine is at the
\* head of its loop and has dialed nothing.
ConnectToPeer(ctx, addr, e) ==
    [pc |-> "select", addr |-> addr, e |-> e, ctx |-> ctx]

\* connectToPeer, the head of its loop: select { case <-ctx.Done(): return;
\* default: ... }.
DialerSelect(d) ==
    /\ dialer[d].pc = "select"
    /\ dialer' = [dialer EXCEPT ![d].pc = IF DialerCtxDone(d) THEN "done"
                                          ELSE "dial"]
    /\ UNCHANGED <<dedupVars, endVars, nodeVars, relayVars, admitVars,
                   statVars, callVars, clockVars, snapVars, bootVars, addp,
                   opsVars>>

\* connectToPeer: net.DialTimeout / tls.DialWithDialer; the context is not
\* looked at again.  On an error (the only outcome when nothing listens at
\* the address) the goroutine sleeps and goes round again; otherwise it
\* calls handleNewConn with the new connection.  Each goroutine has a
\* connection of its own (dialer[d].e), also when another goroutine dials
\* the same address: the new connection takes the place of the one this
\* goroutine made before, whose handleNewConn has returned, and leaves the
\* connections and Peers of the other goroutines alone.
DialerDial(d) ==
    /\ dialer[d].pc = "dial"
    /\ \E ok \in IF dialer[d].e \in DOMAIN conn THEN BOOLEAN ELSE {FALSE} :
        LET e == dialer[d].e
        IN  IF ok
            THEN /\ conn' = [conn EXCEPT ![e] = FreshConn]
                 /\ peer' = Without(peer, e)
                 /\ run' = Without(run, e)
                 /\ hnc' = [hnc EXCEPT ![e] = [pc |-> "ban_ids",
                                               banned |-> BannedOnArrival(e),
                                               localChildren |-> 0,
                                               maxChildren |-> 0]]
                 /\ dialer' = [dialer EXCEPT ![d].pc = "hnc"]
            ELSE /\ dialer' = [dialer EXCEPT ![d].pc = "sleep"]
                 /\ UNCHANGED <<conn, peer, run, hnc>>
    /\ UNCHANGED <<dedupVars, nodeVars, relayVars, cfg, ban, admitLog,
                   statVars, callVars, clockVars, snapVars, bootVars, addp,
                   opsVars>>

\* connectToPeer: s.handleNewConn(ctx, conn, relayChan) has returned, after
\* a rejection or after Run.
DialerReturn(d) ==
    /\ dialer[d].pc = "hnc"
    /\ hnc[dialer[d].e].pc = "returned"
    /\ dialer' = [dialer EXCEPT ![d].pc = "sleep"]
    /\ UNCHANGED <<dedupVars, endVars, nodeVars, relayVars, admitVars,
                   statVars, callVars, clockVars, snapVars, bootVars, addp,
                   opsVars>>

\* A defect of connectToPeer: the goroutine returns after its sleep.
DialerSleepReturns(d) ==
    /\ dialer[d].pc = "sleep"
    /\ dialer' = [dialer EXCEPT ![d].pc = "done"]
    /\ UNCHANGED <<dedupVars, endVars, nodeVars, relayVars, admitVars,
                   statVars, callVars, clockVars, snapVars, bootVars, addp,
                   opsVars>>

\* connectToPeer: time.Sleep(5 * time.Second) is over (after a failed dial:
\* continue; after handleNewConn: the end of the loop body).
DialerSleep(d) ==
    /\ dialer[d].pc = "sleep"
    /\ dialer' = [dialer EXCEPT ![d].pc = "select"]
    /\ UNCHANGED <<dedupVars, endVars, nodeVars, relayVars, admitVars,
                   statVars, callVars, clockVars, snapVars, bootVars, addp,
                   opsVars>>

\* The steps of the connectToPeer goroutine d.
DialerStep(d) ==
    \/ DialerSelect(d) \/ DialerDial(d) \/ DialerReturn(d) \/ DialerSleep(d)

\* ------------------------------------------------------- the fan-out loop

\* Copies of a frame a step put into each peer's SendChan.
Added(before, after) ==
    [e \in DOMAIN before |-> Len(after[e].SendChan) - Len(before[e].SendChan)]

NoneAdded == [e \in DOMAIN peer |-> 0]

\* A finished iteration of the loop, for relayLog.
LogEntry(src, data, dup, added, inject, store) ==
    [src |-> src, data |-> data, dup |-> dup, added |-> added,
     inject |-> inject, store |-> store]

\* A defect of the capture branch: the frame is counted as received only
\* after it was found to be new.
CountReceivedLate(n) == n

\* atomic.AddUint64(&s.totalReceived, 1).
CountReceived(n) == n + 1

\* The capture goroutine: packetChan <- packet.Data(); blocks while the
\* channel is full.  nFrames counts the frames that have entered.
CaptureDeliver(data) ==
    /\ captureUp
    /\ Len(packetChan) < ChanCap
    /\ packetChan' = Append(packetChan, data)
    /\ nFrames' = nFrames + 1
    /\ UNCHANGED <<admitVars, statVars, restVars,
                   totalReceived, totalForwarded, totalDropped, totalErrors,
                   loop, captureUp, relayLog, dedupVars, endVars, nodeVars>>

\* case data := <-packetChan: atomic.AddUint64(&s.totalReceived, 1).
LoopCapture ==
    /\ loop.pc = "select"
    /\ packetChan # <<>>
    /\ loop' = [pc |-> "cap_dedup", data |-> Head(packetChan)]
    /\ packetChan' = Tail(packetChan)
    /\ totalReceived' = CountReceived(totalReceived)
    /\ UNCHANGED <<admitVars, statVars, restVars,
                   totalForwarded, totalDropped, totalErrors, captureUp,
                   relayLog, nFrames, dedupVars, endVars, nodeVars>>

\* if s.dedup.IsDuplicate(data), on a captured frame.
LoopCapDedup ==
    /\ loop.pc = "cap_dedup"
    /\ dedup' = IsDuplicateCache(dedup, dedupSize, loop.data)
    /\ loop' = [loop EXCEPT !.pc = IF IsDuplicateResult(dedup, loop.data)
                                   THEN "cap_drop" ELSE "cap_broadcast"]
    /\ UNCHANGED <<admitVars, statVars, restVars,
                   dedupSize, calls, packetChan, totalReceived, totalForwarded,
                   totalDropped, totalErrors, captureUp, relayLog, nFrames,
                   endVars, nodeVars>>

\* atomic.AddUint64(&s.totalDropped, 1); continue.
LoopCapDrop ==
    /\ loop.pc = "cap_drop"
    /\ totalDropped' = totalDropped + 1
    /\ relayLog' = Append(relayLog,
                     LogEntry("capture", loop.data, TRUE, NoneAdded, "none", dedup))
    /\ loop' = [pc |-> "select", data |-> <<>>]
    /\ UNCHANGED <<admitVars, statVars, restVars,
                   packetChan, totalReceived, totalForwarded, totalErrors,
                   captureUp, nFrames, dedupVars, endVars, nodeVars>>

\* s.broadcastToPeers(data).
LoopCapBroadcast ==
    /\ loop.pc = "cap_broadcast"
    /\ peer' = BroadcastToPeers(1, loop.data)
    /\ relayLog' = Append(relayLog,
                     LogEntry("capture", loop.data, FALSE, Added(peer, peer'),
                              "none", dedup))
    /\ loop' = [loop EXCEPT !.pc = "cap_forward"]
    /\ UNCHANGED <<admitVars, statVars, restVars,
                   packetChan, totalReceived, totalForwarded, totalDropped,
                   totalErrors, captureUp, nFrames, dedupVars, run, conn,
                   nodeVars>>

\* atomic.AddUint64(&s.totalForwarded, 1).
LoopCapForward ==
    /\ loop.pc = "cap_forward"
    /\ totalForwarded' = totalForwarded + 1
    /\ loop' = [pc |-> "select", data |-> <<>>]
    /\ UNCHANGED <<admitVars, statVars, restVars,
                   packetChan, totalReceived, totalDropped, totalErrors,
                   captureUp, relayLog, nFrames, dedupVars, endVars, nodeVars>>

\* case data := <-s.peerRelayChan.
LoopPeer ==
    /\ loop.pc = "select"
    /\ peerRelayChan[1] # <<>>
    /\ loop' = [pc |-> "peer_dedup", data |-> Head(peerRelayChan[1])]
    /\ peerRelayChan' = [peerRelayChan EXCEPT ![1] = Tail(@)]
    /\ UNCHANGED <<admitVars, statVars, restVars,
                   packetChan, totalReceived, totalForwarded, totalDropped,
                   totalErrors, captureUp, relayLog, nFrames, dedupVars,
                   endVars, peers, ctxDone>>

\* if s.dedup.IsDuplicate(data) { continue }, on a frame from a peer.
LoopPeerDedup ==
    /\ loop.pc = "peer_dedup"
    /\ dedup' = IsDuplicateCache(dedup, dedupSize, loop.data)
    /\ IF IsDuplicateResult(dedup, loop.data)
       THEN /\ loop' = [pc |-> "select", data |-> <<>>]
            /\ relayLog' = Append(relayLog,
                             LogEntry("peer", loop.data, TRUE, NoneAdded, "none", dedup'))
       ELSE /\ loop' = [loop EXCEPT !.pc = "peer_inject"]
            /\ UNCHANGED relayLog
    /\ UNCHANGED <<admitVars, statVars, restVars,
                   dedupSize, calls, packetChan, totalReceived, totalForwarded,
                   totalDropped, totalErrors, captureUp, nFrames, endVars,
                   nodeVars>>

\* The outcomes of capturer.Inject(data): an error when the handle is nil
\* (the capture did not start); otherwise WritePacketData succeeds or fails.
InjectOutcomes == IF captureUp THEN {"ok", "err"} ELSE {"err"}

\* A defect of the peer branch: an injection error is logged but not
\* counted.
LoopPeerInjectUncounted ==
    /\ loop.pc = "peer_inject"
    /\ \E outcome \in InjectOutcomes :
        relayLog' = Append(relayLog,
                      LogEntry("peer", loop.data, FALSE, NoneAdded, outcome, dedup))
    /\ loop' = [pc |-> "select", data |-> <<>>]
    /\ UNCHANGED <<admitVars, statVars, restVars,
                   packetChan, totalReceived, totalForwarded, totalDropped,
                   totalErrors, captureUp, nFrames, dedupVars, endVars,
                   nodeVars>>

\* if err := s.capturer.Inject(data); err != nil {
\*     atomic.AddUint64(&s.totalErrors, 1) }.
LoopPeerInject ==
    /\ loop.pc = "peer_inject"
    /\ \E outcome \in InjectOutcomes :
        /\ totalErrors' = IF outcome = "err" THEN totalErrors + 1 ELSE totalErrors
        /\ relayLog' = Append(relayLog,
                         LogEntry("peer", loop.data, FALSE, NoneAdded, outcome, dedup))
    /\ loop' = [pc |-> "select", data |-> <<>>]
    /\ UNCHANGED <<admitVars, statVars, restVars,
                   packetChan, totalReceived, totalForwarded, totalDropped,
                   captureUp, nFrames, dedupVars, endVars, nodeVars>>

\* case <-ctx.Done(): return.
LoopDone ==
    /\ loop.pc = "select"
    /\ ctxDone[1]
    /\ loop' = [loop EXCEPT !.pc = "done"]
    /\ UNCHANGED <<admitVars, statVars, restVars,
                   packetChan, totalReceived, totalForwarded, totalDropped,
                   totalErrors, captureUp, relayLog, nFrames, dedupVars,
                   endVars, nodeVars>>

\* The steps of the loop on captured frames, and its return.
LoopCaptureStep ==
    \/ LoopCapture \/ LoopCapDedup \/ LoopCapDrop \/ LoopCapBroadcast
    \/ LoopCapForward \/ LoopDone

\* The steps of the fan-out loop.
LoopStep ==
    \/ LoopCapture \/ LoopCapDedup \/ LoopCapDrop \/ LoopCapBroadcast
    \/ LoopCapForward \/ LoopPeer \/ LoopPeerDedup \/ LoopPeerInject
    \/ LoopDone

\* ------------------------------------------- operator calls and clients

\* Server.DisconnectPeer(id), under s.peersMu: if p, ok := s.peers[id]; ok
\* { p.Conn.Close() }.
DisconnectPeer(id) ==
    /\ conn' = IF id \in DOMAIN peers[1]
               THEN ConnClose(peers[1][id]) ELSE conn
    /\ UNCHANGED <<peer, run, nodeVars, otherVars>>

\* The client at the far side of e writes bytes to the connection (they are
\* lost when e has closed it).
ClientSend(e, bytes) ==
    /\ conn[e].other = 0
    /\ ~conn[e].remoteClosed
    /\ nFrames' = nFrames + 1
    /\ conn' = IF conn[e].closed THEN conn
               ELSE [conn EXCEPT ![e].rx = @ \o bytes]
    /\ UNCHANGED <<peer, run, nodeVars, dedupVars, admitVars, statVars, restVars,
                   packetChan, totalReceived, totalForwarded, totalDropped,
                   totalErrors, loop, captureUp, relayLog>>

\* The client at the far side of e closes the connection.
ClientClose(e) ==
    /\ conn[e].other = 0
    /\ ~conn[e].remoteClosed
    /\ conn' = [conn EXCEPT ![e].remoteClosed = TRUE]
    /\ UNCHANGED <<peer, run, nodeVars, otherVars>>

\* ------------------------------------------------------------- statistics

\* p1 < p2 on Go strings: byte-wise lexicographic order.
StringLess(a, b) ==
    \E i \in 1..Len(b) :
        /\ Len(a) >= i - 1
        /\ \A j \in 1..(i - 1) : a[j] = b[j]
        /\ Len(a) = i - 1 \/ a[i] < b[i]

\* SortPeers, the switch on s.SortField: less for two PeerStat values.  IDs,
\* IPs (in their String() form) and hostnames are byte strings, times are
\* instants on one clock, the counters are numbers.
Less(field, p1, p2) ==
    CASE field = "id" -> StringLess(p1.ID, p2.ID)
      [] field = "ip" -> StringLess(p1.IP, p2.IP)
      [] field = "hostname" -> StringLess(p1.Hostname, p2.Hostname)
      [] field = "connected" -> p1.ConnectedAt < p2.ConnectedAt
      [] field = "last_seen" -> p1.LastSeen < p2.LastSeen
      [] field = "children" -> p1.NumChildren < p2.NumChildren
      [] field = "sent_bytes" -> p1.SentBytes < p2.SentBytes
      [] field = "recv_bytes" -> p1.RecvBytes < p2.RecvBytes
      [] field = "sent_pkts" -> p1.SentPkts < p2.SentPkts
      [] field = "recv_pkts" -> p1.RecvPkts < p2.RecvPkts
      [] field = "errors" -> p1.Errors < p2.Errors
      [] OTHER -> StringLess(p1.ID, p2.ID)

\* A defect of the comparison: s.SortReverse is ignored.
SliceLessForward(field, reverse, p1, p2) == Less(field, p1, p2)

\* SortPeers, the function handed to sort.Slice: if s.SortReverse { return
\* !less }; return less.
SliceLess(field, reverse, p1, p2) ==
    IF reverse THEN ~Less(field, p1, p2) ELSE Less(field, p1, p2)

\* The slice with its elements at i and j exchanged.
Swap(s, i, j) == [s EXCEPT ![i] = s[j], ![j] = s[i]]

\* sort.Slice on a slice of at most 12 elements is an insertion sort; its
\* inner loop: for j := i; j > a && less(j, j-1); j-- { swap(j, j-1) }.
RECURSIVE InsertLeft(_, _, _, _)
InsertLeft(s, j, field, reverse) ==
    IF j > 1 /\ SliceLess(field, reverse, s[j], s[j - 1])
    THEN InsertLeft(Swap(s, j, j - 1), j - 1, field, reverse)
    ELSE s

\* Its outer loop: for i := a + 1; i < b; i++.
RECURSIVE InsertionSort(_, _, _, _)
InsertionSort(s, i, field, reverse) ==
    IF i > Len(s) THEN s
    ELSE InsertionSort(InsertLeft(s, i, field, reverse), i + 1, field, reverse)

\* Stats.SortPeers on the peer list s.
SortPeers(s, field, reverse) == InsertionSort(s, 2, field, reverse)

\* The orders in which `for _, p := range s.peers` can visit the registry:
\* Go leaves the iteration order of a map unspecified.
RangeOrders(reg) ==
    {s \in [1..Cardinality(reg) -> reg] : \A i, j \in DOMAIN s : i # j => s[i] # s[j]}

\* No CollectStats call in progress; a goroutine that is not in
\* SetSortField.
NoCollect == [pc |-> "idle", peers |-> <<>>, field |-> ""]
NoSort == [pc |-> "idle", data |-> NoData]

\* Server.CollectStats, under s.peersMu.RLock: for _, p := range s.peers {
\* peers = append(peers, p.GetStats()) }, in map iteration order.
CollectStatsRange ==
    /\ stats.call.pc = "idle"
    /\ Len(stats.results) < MaxStatCalls
    /\ \E order \in RangeOrders(stats.reg) :
        stats' = [stats EXCEPT !.call = [pc |-> "sort_field", peers |-> order,
                                         field |-> ""]]
    /\ UNCHANGED <<dedupVars, endVars, nodeVars, relayVars, admitVars,
                   restVars>>

\* CollectStats, the Stats literal: SortField: s.cfg.SortField.  The lock
\* held is not one the writers of s.cfg take.
CollectStatsSortField ==
    /\ stats.call.pc = "sort_field"
    /\ stats' = [stats EXCEPT !.call.pc = "sort_reverse",
                              !.call.field = stats.field]
    /\ UNCHANGED <<dedupVars, endVars, nodeVars, relayVars, admitVars,
                   restVars>>

\* CollectStats, the Stats literal: SortReverse: s.cfg.SortReverse; then
\* st.SortPeers() sorts the list by the two values in st, and st is
\* returned.
CollectStatsReturn ==
    /\ stats.call.pc = "sort_reverse"
    /\ stats' = [stats EXCEPT
                   !.results =
                       Append(@, [SortField |-> stats.call.field,
                                  SortReverse |-> stats.reverse,
                                  Peers |-> SortPeers(stats.call.peers,
                                                      stats.call.field,
                                                      stats.reverse)]),
                   !.call = NoCollect]
    /\ UNCHANGED <<dedupVars, endVars, nodeVars, relayVars, admitVars,
                   restVars>>

\* The steps of a Server.CollectStats call, as far as the peer list goes.
CollectStats ==
    \/ CollectStatsRange \/ CollectStatsSortField \/ CollectStatsReturn

\* Goroutine k (the handler of an API request) calls
\* Server.SetSortField(field): s.cfg.SortField = field, no lock held.
SetSortField(k, field) ==
    /\ stats.set[k].pc = "idle"
    /\ stats' = [stats EXCEPT !.field = field, !.set[k].pc = "persist"]
    /\ UNCHANGED <<dedupVars, endVars, nodeVars, relayVars, admitVars,
                   restVars>>

\* SetSortField: s.persistConfig(): if s.configPath != "" {
\* config.SaveConfig(s.configPath, s.cfg) }, up to the first field the
\* marshalling reads; with the path "" the call returns.
SetSortFieldPersist(k) ==
    /\ stats.set[k].pc = "persist"
    /\ stats' = [stats EXCEPT !.set[k] =
                   IF configPath = "" THEN NoSort
                   ELSE [pc |-> "marshal", data |-> MarshalField(NoFields)]]
    /\ UNCHANGED <<dedupVars, endVars, nodeVars, relayVars, admitVars,
                   restVars>>

\* SetSortField: the marshalling reads its next field; after the last one
\* the data is complete.
SetSortFieldMarshal(k) ==
    /\ stats.set[k].pc = "marshal"
    /\ LET data == MarshalField(stats.set[k].data)
       IN  stats' = [stats EXCEPT !.set[k] =
                       [pc |-> IF Marshalled(data) THEN "open" ELSE "marshal",
                        data |-> data]]
    /\ UNCHANGED <<dedupVars, endVars, nodeVars, relayVars, admitVars,
                   restVars>>

\* SetSortField: the file is opened; after an error (it is logged) the
\* call returns.
SetSortFieldOpen(k) ==
    /\ stats.set[k].pc = "open"
    /\ \E outcome \in OpenOutcomes :
        /\ OpenFile(outcome)
        /\ stats' = [stats EXCEPT !.set[k] =
                       IF outcome = "ok" THEN [@ EXCEPT !.pc = "write"]
                       ELSE NoSort]
    /\ UNCHANGED <<dedupVars, endVars, nodeVars, relayVars, admitVars,
                   procVars, configPath, writerVars, demoVars>>

\* SetSortField: the file is written (an error is logged) and the call
\* returns.
SetSortFieldWrite(k) ==
    /\ stats.set[k].pc = "write"
    /\ \E n \in WrittenLengths(stats.set[k].data) :
           WriteFile(stats.set[k].data, n)
    /\ stats' = [stats EXCEPT !.set[k] = NoSort]
    /\ UNCHANGED <<dedupVars, endVars, nodeVars, relayVars, admitVars,
                   procVars, configPath, writerVars, demoVars>>

\* The steps of the SetSortField call of goroutine k.
SetSortFieldStep(k) ==
    \/ SetSortFieldPersist(k) \/ SetSortFieldMarshal(k)
    \/ SetSortFieldOpen(k) \/ SetSortFieldWrite(k)

\* The settings of the TUI, its "Sort By" drop-down: t.cfg.SortField =
\* option, on the configuration the server holds.  Nothing is saved.
ShowSettingsSortBy(option) ==
    /\ tui.pc = "idle"
    /\ stats' = [stats EXCEPT !.field = option]
    /\ UNCHANGED <<dedupVars, endVars, nodeVars, relayVars, admitVars,
                   restVars>>

\* The settings of the TUI, its "Reverse Sort" checkbox: t.cfg.SortReverse
\* = checked.  Nothing is saved.
ShowSettingsReverseSort(checked) ==
    /\ tui.pc = "idle"
    /\ stats' = [stats EXCEPT !.reverse = checked]
    /\ UNCHANGED <<dedupVars, endVars, nodeVars, relayVars, admitVars,
                   restVars>>

\* A Stats value with nothing counted.
ZeroStats ==
    [TotalReceived |-> 0, TotalForwarded |-> 0, TotalDropped |-> 0,
     TotalErrors |-> 0, CaptureError |-> ""]

\* Server.CollectStats, its aggregate part, taken load by load while the
\* other goroutines run (the peer list is the subject of CollectStats
\* above).  The call begins.
StatsBegin ==
    /\ snap.pc = "idle"
    /\ snap.n < MaxSnapshots
    /\ snap' = [snap EXCEPT !.pc = "capture_err", !.st = ZeroStats,
                            !.stored = boot.captureError # "unset",
                            !.n = @ + 1]
    /\ UNCHANGED <<dedupVars, endVars, nodeVars, relayVars, admitVars,
                   statVars, ctlVars, callVars, clockVars, bootVars,
                   opsVars>>

\* captureErr, _ := s.captureError.Load().(string): the empty string while
\* nothing is stored; if s.demoMode && captureErr == "" { captureErr =
\* "[DEMO MODE ACTIVE]" }.
StatsLoadCaptureErr ==
    /\ snap.pc = "capture_err"
    /\ LET captureErr == IF boot.captureError = "unset" THEN ""
                         ELSE boot.captureError
       IN  snap' = [snap EXCEPT !.pc = "received",
                                !.st.CaptureError =
                                    IF addp.demoMode /\ captureErr = ""
                                    THEN "[DEMO MODE ACTIVE]"
                                    ELSE captureErr]
    /\ UNCHANGED <<dedupVars, endVars, nodeVars, relayVars, admitVars,
                   statVars, ctlVars, callVars, clockVars, bootVars,
                   opsVars>>

\* TotalReceived: atomic.LoadUint64(&s.totalReceived).
StatsLoadReceived ==
    /\ snap.pc = "received"
    /\ snap' = [snap EXCEPT !.pc = "forwarded",
                            !.st.TotalReceived = totalReceived]
    /\ UNCHANGED <<dedupVars, endVars, nodeVars, relayVars, admitVars,
                   statVars, ctlVars, callVars, clockVars, bootVars,
                   opsVars>>

\* TotalForwarded: atomic.LoadUint64(&s.totalForwarded).
StatsLoadForwarded ==
    /\ snap.pc = "forwarded"
    /\ snap' = [snap EXCEPT !.pc = "dropped",
                            !.st.TotalForwarded = totalForwarded]
    /\ UNCHANGED <<dedupVars, endVars, nodeVars, relayVars, admitVars,
                   statVars, ctlVars, callVars, clockVars, bootVars,
                   opsVars>>

\* TotalDropped: atomic.LoadUint64(&s.totalDropped).
StatsLoadDropped ==
    /\ snap.pc = "dropped"
    /\ snap' = [snap EXCEPT !.pc = "errors",
                            !.st.TotalDropped = totalDropped]
    /\ UNCHANGED <<dedupVars, endVars, nodeVars, relayVars, admitVars,
                   statVars, ctlVars, callVars, clockVars, bootVars,
                   opsVars>>

\* TotalErrors: atomic.LoadUint64(&s.totalErrors); the value is returned.
StatsLoadErrors ==
    /\ snap.pc = "errors"
    /\ snap' = [snap EXCEPT !.pc = "idle",
                            !.st.TotalErrors = totalErrors,
                            !.out = Append(@,
                                       [st |-> [snap.st EXCEPT
                                                  !.TotalErrors = totalErrors],
                                        stored |-> snap.stored])]
    /\ UNCHANGED <<dedupVars, endVars, nodeVars, relayVars, admitVars,
                   statVars, ctlVars, callVars, clockVars, bootVars,
                   opsVars>>

\* The steps of a CollectStats call.
StatsStep ==
    \/ StatsBegin \/ StatsLoadCaptureErr \/ StatsLoadReceived
    \/ StatsLoadForwarded \/ StatsLoadDropped \/ StatsLoadErrors

\* ----------------------------------------------------------- Server.Start

\* err.Error() of capturer.Start: the interface name is empty, or
\* pcap.OpenLive fails; the empty string when the capture has started.
CaptureErrorText(outcome) ==
    IF outcome = "no_iface" THEN "no interface specified"
    ELSE IF outcome = "open_failed" THEN "failed to open device"
    ELSE ""

\* A defect of Start: a capture error is returned to the caller.
StartCaptureFatal ==
    /\ boot.pc = "new"
    /\ ~addp.demoMode
    /\ captureUp' = (boot.capture = "ok")
    /\ boot' = IF boot.capture = "ok"
               THEN [boot EXCEPT !.pc = "go_listen", !.captureError = ""]
               ELSE [boot EXCEPT !.pc = "returned", !.ret = "error"]
    /\ UNCHANGED <<dedupVars, endVars, nodeVars, admitVars, statVars,
                   ctlVars, callVars, clockVars, snapVars, packetChan, totalReceived,
                   totalForwarded, totalDropped, totalErrors, loop, relayLog,
                   nFrames, opsVars>>

\* Start, outside demo mode: if err := s.capturer.Start(ctx, packetChan);
\* err != nil { s.captureError.Store(err.Error()) } else {
\* s.captureError.Store("") }.
StartCapture ==
    /\ boot.pc = "new"
    /\ ~addp.demoMode
    /\ captureUp' = (boot.capture = "ok")
    /\ boot' = [boot EXCEPT !.pc = "go_listen",
                            !.captureError = CaptureErrorText(boot.capture)]
    /\ UNCHANGED <<dedupVars, endVars, nodeVars, admitVars, statVars,
                   ctlVars, callVars, clockVars, snapVars, packetChan, totalReceived,
                   totalForwarded, totalDropped, totalErrors, loop, relayLog,
                   nFrames, opsVars>>

\* go s.listenPeers(ctx, s.peerRelayChan).
StartGoListen ==
    /\ boot.pc = "go_listen"
    /\ boot' = [boot EXCEPT !.pc = "go_dial", !.listen = "launched"]
    /\ UNCHANGED <<dedupVars, endVars, nodeVars, relayVars, admitVars,
                   statVars, ctlVars, callVars, clockVars, snapVars,
                   opsVars>>

\* for _, peerAddr := range s.cfg.Peers { go s.connectToPeer(...) }.
StartGoDial ==
    /\ boot.pc = "go_dial"
    /\ boot.dialers < boot.nPeers
    /\ boot' = [boot EXCEPT !.dialers = @ + 1]
    /\ UNCHANGED <<dedupVars, endVars, nodeVars, relayVars, admitVars,
                   statVars, ctlVars, callVars, clockVars, snapVars,
                   opsVars>>

\* go func() { for { select { ... } } }(): the relay loop is launched.
StartGoLoop ==
    /\ boot.pc = "go_dial"
    /\ boot.dialers = boot.nPeers
    /\ loop' = [pc |-> "select", data |-> <<>>]
    /\ boot' = [boot EXCEPT !.pc = "return"]
    /\ UNCHANGED <<dedupVars, endVars, nodeVars, admitVars, statVars,
                   ctlVars, callVars, clockVars, snapVars, packetChan, totalReceived,
                   totalForwarded, totalDropped, totalErrors, captureUp,
                   relayLog, nFrames, opsVars>>

\* return nil.
StartReturn ==
    /\ boot.pc = "return"
    /\ boot' = [boot EXCEPT !.pc = "returned", !.ret = "nil"]
    /\ UNCHANGED <<dedupVars, endVars, nodeVars, relayVars, admitVars,
                   statVars, ctlVars, callVars, clockVars, snapVars,
                   opsVars>>

\* listenPeers up to its accept loop: net.Listen with DisableSSL; otherwise
\* tls.LoadX509KeyPair, on whose error the goroutine logs and returns, and
\* tls.Listen.  A listen error is logged and the goroutine returns.
ListenSetup ==
    /\ boot.listen = "launched"
    /\ boot' = [boot EXCEPT !.listen =
                   IF ~boot.disableSSL /\ ~boot.certOK THEN "no_tls_keys"
                   ELSE IF ~boot.listenOK THEN "listen_failed"
                   ELSE "listening"]
    /\ UNCHANGED <<dedupVars, endVars, nodeVars, relayVars, admitVars,
                   statVars, ctlVars, callVars, clockVars, snapVars,
                   opsVars>>

\* ----------------------------------------------------------- Server.AddPeer

\* Addresses are strings, kept as sequences of characters.
DefaultPort == <<"8", "7", "8", "7">>

\* strings.Contains(s, ch) for a one-character ch.
Contains(s, ch) == \E i \in 1..Len(s) : s[i] = ch

\* strings.HasSuffix(s, ch) for a one-character ch.
HasSuffix(s, ch) == Len(s) >= 1 /\ s[Len(s)] = ch

\* strings.LastIndex(s, ch), counted from 1 (0 when ch is not in s).
LastIndex(s, ch) ==
    IF Contains(s, ch)
    THEN CHOOSE i \in 1..Len(s) :
             s[i] = ch /\ \A j \in (i + 1)..Len(s) : s[j] # ch
    ELSE 0

\* net.JoinHostPort(host, port): a host with a colon is put in brackets.
JoinHostPort(host, port) ==
    IF Contains(host, ":")
    THEN <<"[">> \o host \o <<"]", ":">> \o port
    ELSE host \o <<":">> \o port

\* AddPeer, its first lines: the default port 8787 is added to an address
\* without "]" that has no colon, and to an address with "]" that neither
\* ends in a colon nor has one from its last "]" on.
NormalizeAddr(addr) ==
    IF ~Contains(addr, "]")
    THEN IF ~Contains(addr, ":") THEN JoinHostPort(addr, DefaultPort) ELSE addr
    ELSE IF /\ ~HasSuffix(addr, ":")
            /\ ~Contains(SubSeq(addr, LastIndex(addr, "]"), Len(addr)), ":")
         THEN JoinHostPort(addr, DefaultPort)
         ELSE addr

\* Goroutine c calls AddPeer(ctx, addr) (an API request): the address is
\* normalized.
AddPeerCall(c, addr) ==
    /\ addp.call[c].pc \in {"idle", "returned"}
    /\ addp.n < MaxAddCalls
    /\ addp' = [addp EXCEPT !.call[c] = [pc |-> "check",
                                         addr |-> NormalizeAddr(addr),
                                         data |-> NoData],
                            !.n = @ + 1]
    /\ UNCHANGED <<dedupVars, endVars, nodeVars, relayVars, admitVars,
                   statVars, callVars, clockVars, snapVars, bootVars, dialer,
                   opsVars>>

\* AddPeer, under s.peersMu.RLock: for _, p := range s.cfg.Peers { if p ==
\* addr { return } }; the read lock is released before the write lock is
\* taken.
AddPeerCheck(c) ==
    /\ addp.call[c].pc = "check"
    /\ addp' = [addp EXCEPT !.call[c].pc =
                   IF addp.call[c].addr \in Range(addp.peers)
                   THEN "returned" ELSE "append"]
    /\ UNCHANGED <<dedupVars, endVars, nodeVars, relayVars, admitVars,
                   statVars, callVars, clockVars, snapVars, bootVars, dialer,
                   opsVars>>

\* AddPeer, under s.peersMu.Lock: s.cfg.Peers = append(s.cfg.Peers, addr).
AddPeerAppend(c) ==
    /\ addp.call[c].pc = "append"
    /\ addp' = [addp EXCEPT !.peers = Append(@, addp.call[c].addr),
                            !.call[c].pc = "persist"]
    /\ UNCHANGED <<dedupVars, endVars, nodeVars, relayVars, admitVars,
                   statVars, callVars, clockVars, snapVars, bootVars, dialer,
                   opsVars>>

\* The connection the dials of a new connectToPeer goroutine make where a
\* relay listens at addr, k goroutines dialing that address already: one
\* may listen at [::1]:90 (the connection of the first goroutine is 6, of
\* the next 7 and so on), none at another address.
DialedEnd(addr, k) ==
    IF addr = <<"[", ":", ":", "1", "]", ":", "9", "0">> THEN 6 + k ELSE 0

\* AddPeer, after the unlock: s.persistConfig(): if s.configPath != "" {
\* config.SaveConfig(s.configPath, s.cfg) }, up to the first field the
\* marshalling reads; with the path "" persistConfig returns.
AddPeerPersist(c) ==
    /\ addp.call[c].pc = "persist"
    /\ addp' = [addp EXCEPT !.call[c].pc = IF configPath = "" THEN "go"
                                           ELSE "marshal",
                            !.call[c].data =
                                IF configPath = "" THEN NoData
                                ELSE MarshalField(NoFields)]
    /\ UNCHANGED <<dedupVars, endVars, nodeVars, relayVars, admitVars,
                   statVars, callVars, clockVars, snapVars, bootVars, dialer,
                   opsVars>>

\* AddPeer: the marshalling reads its next field; after the last one the
\* data is complete.
AddPeerMarshal(c) ==
    /\ addp.call[c].pc = "marshal"
    /\ LET data == MarshalField(addp.call[c].data)
       IN  addp' = [addp EXCEPT !.call[c].data = data,
                                !.call[c].pc = IF Marshalled(data) THEN "open"
                                               ELSE "marshal"]
    /\ UNCHANGED <<dedupVars, endVars, nodeVars, relayVars, admitVars,
                   statVars, callVars, clockVars, snapVars, bootVars, dialer,
                   opsVars>>

\* AddPeer: the file is opened; after an error (it is logged)
\* persistConfig returns.
AddPeerOpen(c) ==
    /\ addp.call[c].pc = "open"
    /\ \E outcome \in OpenOutcomes :
        /\ OpenFile(outcome)
        /\ addp' = [addp EXCEPT !.call[c].pc = IF outcome = "ok" THEN "write"
                                               ELSE "go",
                                !.call[c].data = IF outcome = "ok" THEN @
                                                 ELSE NoData]
    /\ UNCHANGED <<dedupVars, endVars, nodeVars, relayVars, admitVars,
                   statVars, callVars, clockVars, snapVars, bootVars, dialer,
                   configPath, writerVars, demoVars>>

\* AddPeer: the file is written (an error is logged) and persistConfig
\* returns.
AddPeerWrite(c) ==
    /\ addp.call[c].pc = "write"
    /\ \E n \in WrittenLengths(addp.call[c].data) :
           WriteFile(addp.call[c].data, n)
    /\ addp' = [addp EXCEPT !.call[c].pc = "go", !.call[c].data = NoData]
    /\ UNCHANGED <<dedupVars, endVars, nodeVars, relayVars, admitVars,
                   statVars, callVars, clockVars, snapVars, bootVars, dialer,
                   configPath, writerVars, demoVars>>

\* AddPeer: if !s.demoMode { go s.connectToPeer(ctx, addr,
\* s.peerRelayChan) }, and the call returns.  The ctx is the one AddPeer
\* was called with, the context of the API request (a.srv.AddPeer(
\* r.Context(), req.Addr)).
AddPeerSpawn(c) ==
    /\ addp.call[c].pc = "go"
    /\ addp' = [addp EXCEPT !.call[c].pc = "returned"]
    /\ dialer' =
         IF addp.demoMode THEN dialer
         ELSE LET addr == addp.call[c].addr
                  k == Cardinality({d \in DOMAIN dialer :
                                       dialer[d].addr = addr})
              IN  Append(dialer,
                         ConnectToPeer("request", addr, DialedEnd(addr, k)))
    /\ UNCHANGED <<dedupVars, endVars, nodeVars, relayVars, admitVars,
                   statVars, callVars, clockVars, snapVars, bootVars,
                   opsVars>>

\* addPeerHandler has written its reply and returned: net/http cancels the
\* context of the request when ServeHTTP returns (and before, when the
\* client's connection closes), which is the context of the dialer d that
\* the request's AddPeer call launched.
AddPeerHandlerReturn(d) ==
    /\ dialer[d].ctx = "request"
    /\ dialer' = [dialer EXCEPT ![d].ctx = "request_done"]
    /\ UNCHANGED <<dedupVars, endVars, nodeVars, relayVars, admitVars,
                   statVars, callVars, clockVars, snapVars, bootVars, addp,
                   opsVars>>

\* Server.SetDemoMode(enabled): s.demoMode = enabled, no lock held.
SetDemoMode(enabled) ==
    /\ addp' = [addp EXCEPT !.demoMode = enabled, !.switched = TRUE]
    /\ UNCHANGED <<dedupVars, endVars, nodeVars, relayVars, admitVars,
                   statVars, callVars, clockVars, snapVars, bootVars, dialer,
                   opsVars>>

\* ---------------------------------------------------------------- demo mode

\* Goroutine k (the handler of an API request, or the TUI) calls
\* Server.UpdateDemoProps(packetRate, dropRate, errorRate, numPeers), at
\* any time, also while runDemo runs: s.demoPacketRate = packetRate.  No
\* lock is held in UpdateDemoProps, so what runDemo reads between two of
\* the four writes is half of the old and half of the new properties.
UpdateDemoProps(k, packetRate, dropRate, errorRate, numPeers) ==
    /\ demo.set[k].pc = "idle"
    /\ demo.updates < MaxDemoUpdates
    /\ demo' = [demo EXCEPT !.packetRate = packetRate,
                            !.updates = @ + 1,
                            !.set[k] = [pc |-> "drop_rate",
                                        dropRate |-> dropRate,
                                        errorRate |-> errorRate,
                                        numPeers |-> numPeers]]
    /\ UNCHANGED <<dedupVars, endVars, nodeVars, relayVars, admitVars,
                   statVars, procVars, fileVars, writerVars>>

\* UpdateDemoProps: s.demoDropRate = dropRate.
UpdateDemoPropsDropRate(k) ==
    /\ demo.set[k].pc = "drop_rate"
    /\ demo' = [demo EXCEPT !.dropRate = demo.set[k].dropRate,
                            !.set[k].pc = "error_rate"]
    /\ UNCHANGED <<dedupVars, endVars, nodeVars, relayVars, admitVars,
                   statVars, procVars, fileVars, writerVars>>

\* UpdateDemoProps: s.demoErrorRate = errorRate.
UpdateDemoPropsErrorRate(k) ==
    /\ demo.set[k].pc = "error_rate"
    /\ demo' = [demo EXCEPT !.errorRate = demo.set[k].errorRate,
                            !.set[k].pc = "num_peers"]
    /\ UNCHANGED <<dedupVars, endVars, nodeVars, relayVars, admitVars,
                   statVars, procVars, fileVars, writerVars>>

\* UpdateDemoProps: s.demoNumPeers = numPeers, and the call returns.
UpdateDemoPropsNumPeers(k) ==
    /\ demo.set[k].pc = "num_peers"
    /\ demo' = [demo EXCEPT !.numPeers = demo.set[k].numPeers,
                            !.set[k] = NoDemoUpdate]
    /\ UNCHANGED <<dedupVars, endVars, nodeVars, relayVars, admitVars,
                   statVars, procVars, fileVars, writerVars>>

\* The steps of the UpdateDemoProps call of goroutine k.
UpdateDemoPropsStep(k) ==
    \/ UpdateDemoPropsDropRate(k) \/ UpdateDemoPropsErrorRate(k)
    \/ UpdateDemoPropsNumPeers(k)

\* Start in demo mode: if s.demoMode { go s.runDemo(ctx); return nil }.
\* Neither the capture nor the listener nor a dialer is started.
StartDemo ==
    /\ boot.pc = "new"
    /\ addp.demoMode
    /\ boot' = [boot EXCEPT !.pc = "returned", !.ret = "nil"]
    /\ demo' = [demo EXCEPT !.pc = "select"]
    /\ UNCHANGED <<dedupVars, endVars, nodeVars, relayVars, admitVars,
                   statVars, ctlVars, callVars, clockVars, snapVars, fileVars,
                   writerVars>>

\* The ticker of runDemo: a second passes and a tick is put into ticker.C,
\* which holds one.  The ticks are followed while runDemo has iterations
\* left.
TickerTick ==
    /\ demo.pc \notin {"off", "done"}
    /\ now < MaxSeconds
    /\ demo.n < MaxDemoTicks
    /\ now' = now + 1
    /\ demo' = [demo EXCEPT !.tick = TRUE]
    /\ UNCHANGED <<ttl, dedupVars, endVars, nodeVars, relayVars, admitVars,
                   statVars, ctlVars, callVars, snapVars, bootVars, fileVars,
                   writerVars>>

\* runDemo: select { case <-ctx.Done(): return; case <-ticker.C: ... }.
\* With both ready either case is taken.
RunDemoSelect ==
    /\ demo.pc = "select"
    /\ \E branch \in {b \in {"done", "tick"} :
                        IF b = "done" THEN ctxDone[1]
                        ELSE demo.tick /\ demo.n < MaxDemoTicks} :
        demo' = IF branch = "done" THEN [demo EXCEPT !.pc = "done"]
                ELSE [demo EXCEPT !.pc = "reconcile", !.tick = FALSE,
                                  !.n = @ + 1]
    /\ UNCHANGED <<dedupVars, endVars, nodeVars, relayVars, admitVars,
                   statVars, procVars, fileVars, writerVars>>

\* fmt.Sprintf("demo-node-%d", i), the connection end that stands for the
\* fake connection of that peer, and strings.HasPrefix(id, "demo-node-").
DemoID(i) ==
    CASE i = 0 -> "demo-node-0" [] i = 1 -> "demo-node-1"
      [] i = 2 -> "demo-node-2" [] i = 3 -> "demo-node-3"
      [] i = 4 -> "demo-node-4" [] i = 5 -> "demo-node-5"
      [] i = 6 -> "demo-node-6" [] i = 7 -> "demo-node-7"
      [] i = 8 -> "demo-node-8" [] OTHER -> "demo-node-9"
DemoEnd(i) == 10 + i
IsDemoID(id) == \E i \in 0..(MaxDemoPeers - 1) : id = DemoID(i)

\* runDemo: parentID := "Local"; if i > 0 { parentIdx := i / 3; if
\* parentIdx < i { parentID = fmt.Sprintf("demo-node-%d", parentIdx) } }.
DemoParent(i) ==
    IF i > 0 /\ i \div 3 < i THEN DemoID(i \div 3) ELSE "Local"

\* Peer.UpdateDemoStatsWithSeed(seed) on the Peer p: four atomic adds.
UpdateDemoStatsWithSeed(p, seed) ==
    [p EXCEPT !.sentBytes = @ + 500 + (seed % 1000),
              !.recvBytes = @ + 400 + (seed % 1000),
              !.sentPkts = @ + 1 + (seed % 5),
              !.recvPkts = @ + 1 + (seed % 5)]

\* Peer.UpdateDemoStatsWithParent(seed, parentID, numChildren, maxChildren).
UpdateDemoStatsWithParent(p, seed, parentID, numChildren, maxChildren) ==
    [UpdateDemoStatsWithSeed(p, seed) EXCEPT !.parentID = parentID,
                                             !.numChildren = numChildren,
                                             !.maxChildren = maxChildren]

\* Peer.UpdateChildCount(num, max).
UpdateChildCount(p, num, max) ==
    [p EXCEPT !.numChildren = num, !.maxChildren = max]

\* Peer.UpdateDemoStats(): p.UpdateDemoStatsWithSeed(time.Now().Unix()),
\* the time being counted in the seconds of the model's clock.
UpdateDemoStats(p) == UpdateDemoStatsWithSeed(p, now)

\* runDemo, the loop "for i := currentCount; i < s.demoNumPeers; i++"
\* from i on, where its next read of s.demoNumPeers is the j-th of the
\* locked section and sees rd[j]: the i at which it ends.
RECURSIVE AddLoopEnd(_, _, _)
AddLoopEnd(i, j, rd) ==
    IF i < rd[j] THEN AddLoopEnd(i + 1, j + 1, rd) ELSE i

\* runDemo: for _, other := range s.peers { if other.GetStats().ParentID
\* == id { hasChildren = true } }, on the registry reg.
HasChildren(reg, id) == \E o \in DOMAIN reg : peer[reg[o]].parentID = id

\* runDemo, the loop "for id := range s.peers" that removes demo peers,
\* with the ids in rest still to come (a map is ranged over in any order,
\* and an entry deleted is not come to again): if removed >= toRemove
\* { break }; a demo peer without children in the registry as it is now
\* is deleted.  The registries the loop can end with.
RECURSIVE RemoveLoop(_, _, _, _)
RemoveLoop(reg, rest, removed, toRemove) ==
    IF removed >= toRemove \/ rest = {} THEN {reg}
    ELSE UNION {IF IsDemoID(id) /\ ~HasChildren(reg, id)
                THEN RemoveLoop(Without(reg, id), rest \ {id}, removed + 1,
                                toRemove)
                ELSE RemoveLoop(reg, rest \ {id}, removed, toRemove) :
                id \in rest}

\* runDemo, under s.peersMu.Lock: the demo peers are counted and every
\* registered peer gets its number of children and s.cfg.MaxChildren; if
\* currentCount < s.demoNumPeers the missing demo peers are made, given
\* their parent and registered, else if currentCount > s.demoNumPeers
\* toRemove := currentCount - s.demoNumPeers and demo peers that have no
\* children are removed.  s.demoNumPeers is read again at each of these
\* places, with no lock that UpdateDemoProps takes: where a call w of
\* UpdateDemoProps is about to write it, the write may come before the
\* land-th read of the section, which then sees the new value with all
\* reads after it (w = 0: no write comes in between).  s.peersMu.Lock()
\* waits while a CollectStats call holds the read lock.
RunDemoReconcile ==
    /\ demo.pc = "reconcile"
    /\ snap.pc = "idle" /\ stats.call.pc = "idle"
    /\ \E w \in {0} \cup {k \in DOMAIN demo.set :
                              demo.set[k].pc = "num_peers"} :
       \E land \in IF w = 0 THEN {0} ELSE 1..(MaxDemoPeers + 2) :
        LET rd == [j \in 1..(MaxDemoPeers + 2) |->
                      IF w # 0 /\ j >= land THEN demo.set[w].numPeers
                      ELSE demo.numPeers]
            reg == peers[1]
            currentCount == Cardinality({id \in DOMAIN reg : IsDemoID(id)})
            children(id) ==
                Cardinality({o \in DOMAIN reg : peer[reg[o]].parentID = id})
            counted ==
                [e \in DOMAIN peer |->
                    IF \E id \in DOMAIN reg : reg[id] = e
                    THEN UpdateChildCount(peer[e], children(peer[e].ID),
                                          cfg.MaxChildren)
                    ELSE peer[e]]
            new == IF currentCount < rd[1]
                   THEN {i \in currentCount..(AddLoopEnd(currentCount, 2, rd)
                                                  - 1) :
                            DemoID(i) \notin DOMAIN reg}
                   ELSE {}
            toRemove == IF currentCount >= rd[1] /\ currentCount > rd[2]
                        THEN currentCount - rd[3] ELSE 0
        IN  /\ \E kept \in RemoveLoop(reg, DOMAIN reg, 0, toRemove) :
                LET gone == {reg[id] : id \in DOMAIN reg \ DOMAIN kept}
                IN  /\ peer' = [e \in {DemoEnd(i) : i \in new} |->
                                   LET i == e - 10
                                   IN  UpdateDemoStatsWithParent(
                                           NewPeer(DemoID(i), cfg.NetworkKey),
                                           i, DemoParent(i), 0,
                                           cfg.MaxChildren)]
                               @@ [e \in DOMAIN counted \ gone |-> counted[e]]
                    /\ peers' = [peers EXCEPT ![1] =
                                   [id \in {DemoID(i) : i \in new} |->
                                       DemoEnd(CHOOSE i \in new :
                                                   DemoID(i) = id)]
                                   @@ kept]
            /\ demo' = IF w = 0 THEN [demo EXCEPT !.pc = "received"]
                       ELSE [demo EXCEPT !.pc = "received",
                                         !.numPeers = demo.set[w].numPeers,
                                         !.set[w] = NoDemoUpdate]
    /\ UNCHANGED <<dedupVars, run, conn, peerRelayChan, ctxDone, relayVars,
                   admitVars, statVars, procVars, fileVars, writerVars>>

\* runDemo: atomic.AddUint64(&s.totalReceived, uint64(s.demoPacketRate +
\* int(time.Now().Unix() % int64(s.demoPacketRate/2+1)))).
RunDemoReceived ==
    /\ demo.pc = "received"
    /\ totalReceived' = totalReceived + demo.packetRate
                            + (now % (demo.packetRate \div 2 + 1))
    /\ demo' = [demo EXCEPT !.pc = "forwarded"]
    /\ UNCHANGED <<dedupVars, endVars, nodeVars, packetChan, totalForwarded,
                   totalDropped, totalErrors, loop, captureUp, relayLog,
                   nFrames, admitVars, statVars, procVars, fileVars,
                   writerVars>>

\* runDemo: atomic.AddUint64(&s.totalForwarded, uint64(s.demoPacketRate -
\* s.demoDropRate + int(time.Now().Unix() % int64(s.demoPacketRate/2+1)))).
RunDemoForwarded ==
    /\ demo.pc = "forwarded"
    /\ totalForwarded' = totalForwarded + demo.packetRate - demo.dropRate
                             + (now % (demo.packetRate \div 2 + 1))
    /\ demo' = [demo EXCEPT !.pc = "dropped"]
    /\ UNCHANGED <<dedupVars, endVars, nodeVars, packetChan, totalReceived,
                   totalDropped, totalErrors, loop, captureUp, relayLog,
                   nFrames, admitVars, statVars, procVars, fileVars,
                   writerVars>>

\* runDemo: atomic.AddUint64(&s.totalDropped, uint64(time.Now().Unix() %
\* int64(s.demoDropRate+1))).
RunDemoDropped ==
    /\ demo.pc = "dropped"
    /\ totalDropped' = totalDropped + (now % (demo.dropRate + 1))
    /\ demo' = [demo EXCEPT !.pc = "errors"]
    /\ UNCHANGED <<dedupVars, endVars, nodeVars, packetChan, totalReceived,
                   totalForwarded, totalErrors, loop, captureUp, relayLog,
                   nFrames, admitVars, statVars, procVars, fileVars,
                   writerVars>>

\* runDemo: if s.demoErrorRate > 0 && time.Now().Unix() %
\* int64(s.demoErrorRate) == 0 { atomic.AddUint64(&s.totalErrors, 1) }.
RunDemoErrors ==
    /\ demo.pc = "errors"
    /\ totalErrors' = IF demo.errorRate > 0 /\ now % demo.errorRate = 0
                      THEN totalErrors + 1 ELSE totalErrors
    /\ demo' = [demo EXCEPT !.pc = "update_stats"]
    /\ UNCHANGED <<dedupVars, endVars, nodeVars, packetChan, totalReceived,
                   totalForwarded, totalDropped, loop, captureUp, relayLog,
                   nFrames, admitVars, statVars, procVars, fileVars,
                   writerVars>>

\* runDemo, under s.peersMu.RLock: for _, p := range s.peers {
\* p.UpdateDemoStats() }, and the loop goes round.
RunDemoUpdateStats ==
    /\ demo.pc = "update_stats"
    /\ peer' = [e \in DOMAIN peer |->
                  IF \E id \in DOMAIN peers[1] : peers[1][id] = e
                  THEN UpdateDemoStats(peer[e]) ELSE peer[e]]
    /\ demo' = [demo EXCEPT !.pc = "select"]
    /\ UNCHANGED <<dedupVars, run, conn, nodeVars, relayVars, admitVars,
                   statVars, procVars, fileVars, writerVars>>

\* The steps of the runDemo goroutine.
RunDemoStep ==
    \/ RunDemoSelect \/ RunDemoReconcile \/ RunDemoReceived
    \/ RunDemoForwarded \/ RunDemoDropped \/ RunDemoErrors
    \/ RunDemoUpdateStats

\* --------------------------------------------------------- specifications

\* The variables of the DedupCache when a specification makes no calls on it.
DedupAtRest == dedupSize = 1 /\ dedup = NewDedupCache(1) /\ calls = <<>>

\* The relay engine before Start: NewServer's zero counters, no loop.
RelayAtRest ==
    /\ packetChan = <<>>
    /\ totalReceived = 0 /\ totalForwarded = 0
    /\ totalDropped = 0 /\ totalErrors = 0
    /\ loop = [pc |-> "off", data |-> <<>>]
    /\ captureUp = FALSE
    /\ relayLog = <<>>
    /\ nFrames = 0

\* The relay engine after Start, outside demo mode, with a capture that
\* started: the loop is at its select, nothing has been counted.
RelayStarted ==
    /\ packetChan = <<>>
    /\ totalReceived = 0 /\ totalForwarded = 0
    /\ totalDropped = 0 /\ totalErrors = 0
    /\ loop = [pc |-> "select", data |-> <<>>]
    /\ captureUp = TRUE
    /\ relayLog = <<>>
    /\ nFrames = 0

\* The admission path when no connection arrives and nobody is banned: the
\* configuration is config.DefaultConfig().
DefaultConfig ==
    [BannedIDs |-> <<>>, BannedHosts |-> <<>>, AdminPass |-> "admin",
     MaxChildren |-> 5, NetworkKey |-> NoKey]

\* A goroutine that has not called BanPeer.
NoBan ==
    [pc |-> "idle", id |-> "", ip |-> "", seen |-> <<>>, data |-> NoData]

AdmitAtRest ==
    /\ cfg = DefaultConfig
    /\ hnc = <<>>
    /\ ban = <<>>
    /\ admitLog = <<>>

\* No CollectStats call has been made.
NoSnapshot ==
    [pc |-> "idle", st |-> ZeroStats, stored |-> FALSE, n |-> 0, out |-> <<>>]

\* A server on which Start has not been called: the default configuration
\* (TLS on, no peers to dial), captureError not stored yet.
NotStarted ==
    [pc |-> "new", capture |-> "ok", disableSSL |-> FALSE,
     certOK |-> TRUE, listenOK |-> TRUE, nPeers |-> 0,
     captureError |-> "unset", listen |-> "none", dialers |-> 0,
     ret |-> "none"]

\* A server whose Start has returned nil, outside demo mode: the capture
\* started, the listener listens, nPeers dialers were launched.
Started(nPeers) ==
    [pc |-> "returned", capture |-> "ok", disableSSL |-> FALSE,
     certOK |-> TRUE, listenOK |-> TRUE, nPeers |-> nPeers,
     captureError |-> "", listen |-> "listening", dialers |-> nPeers,
     ret |-> "nil"]

\* No AddPeer call has been made on the default configuration (no peers),
\* outside demo mode.
NoAddPeer ==
    [peers |-> <<>>, demoMode |-> FALSE, switched |-> FALSE, call |-> <<>>,
     n |-> 0]

\* No concurrent IsDuplicate calls, the default TTL, no CollectStats call,
\* no AddPeer call.
CallsAtRest ==
    /\ callers = <<>>
    /\ ttl = DedupCacheTTL
    /\ now = 0
    /\ snap = NoSnapshot
    /\ addp = NoAddPeer

\* No concurrent IsDuplicate calls, the default TTL, no CollectStats call,
\* Start not called, no AddPeer call, no dialer.
RestAtRest ==
    /\ callers = <<>>
    /\ ttl = DedupCacheTTL
    /\ now = 0
    /\ snap = NoSnapshot
    /\ boot = NotStarted
    /\ addp = NoAddPeer
    /\ dialer = <<>>

StatsAtRest ==
    stats = [reg |-> {}, field |-> "id", reverse |-> FALSE, results |-> <<>>,
             call |-> NoCollect, set |-> <<>>]

\* The ends and servers of SpecLink: server 1 dialed server 2, which
\* accepted; each has registered the connection (handleNewConn up to
\* s.peers[peerID] = p) and is about to call Run.  The relay loop of server
\* 1 runs and its capture delivers frames; server 2 captures nothing, and
\* what its end publishes stays in its peer-ingress channel.
LinkNodes == {1, 2}
LinkEnds == {1, 2}
LinkID(e) == IF e = 1 THEN "10.0.0.2:8787" ELSE "10.0.0.1:40001"
LinkKeys == {KeyAlpha, KeyOmega, KeyLong, NoKey}
LinkPackets == {P1}

InitLink ==
    /\ DedupAtRest
    /\ RelayStarted
    /\ AdmitAtRest
    /\ StatsAtRest
    /\ RestAtRest
    /\ \E k \in [LinkEnds -> LinkKeys] :
        /\ peer = [e \in LinkEnds |-> NewPeer(LinkID(e), k[e])]
        /\ run = [e \in LinkEnds |-> NewRun(k[e])]
    /\ conn = [e \in LinkEnds |->
                 [node |-> e, other |-> 3 - e, rx |-> <<>>, written |-> <<>>,
                  closed |-> FALSE, remoteClosed |-> FALSE]]
    /\ peers = [n \in LinkNodes |-> (LinkID(n) :> n)]
    /\ peerRelayChan = [n \in LinkNodes |-> <<>>]
    /\ ctxDone = [n \in LinkNodes |-> FALSE]
    /\ NoConfigFile

NextLink ==
    \/ \E e \in LinkEnds : RunStep(e)
    \/ \E n \in LinkNodes : Cancel(n)
    \/ \E data \in LinkPackets : nFrames < MaxLinkFrames /\ CaptureDeliver(data)
    \/ LoopStep

SpecLink == InitLink /\ [][NextLink]_vars

\* The Go scheduler runs every goroutine that can take a step: no step of
\* Run or of its receiver and sender stays possible forever without being
\* taken.
SpecLinkFair == SpecLink /\ \A e \in LinkEnds : WF_vars(RunStep(e))

\* The relay engine of Spec: server 1 after Start, outside demo mode, with
\* up to two admitted peers whose handshakes are done and whose streams run;
\* the far side of each is a client that sends whole frames and keeps its
\* connection open.
RelayID(e) == IF e = 1 THEN "10.0.0.2:40001" ELSE "10.0.0.3:40002"
RelayPackets == {P1, P2}
RelayEnds == {1, 2}

InitRelay ==
    /\ dedupSize \in 1..2
    /\ dedup = NewDedupCache(dedupSize)
    /\ calls = <<>>
    /\ \E k \in 0..Cardinality(RelayEnds) :
        /\ peer = [e \in 1..k |-> NewPeer(RelayID(e), NoKey)]
        /\ run = [e \in 1..k |->
                    [NewRun(NoKey) EXCEPT !.hpc = "wait", !.rpc = "read_len",
                                          !.spc = "select"]]
        /\ conn = [e \in 1..k |->
                     [node |-> 1, other |-> 0, rx |-> <<>>, written |-> <<>>,
                      closed |-> FALSE, remoteClosed |-> FALSE]]
        /\ peers = [n \in {1} |-> [i \in {RelayID(e) : e \in 1..k} |->
                                      CHOOSE e \in 1..k : RelayID(e) = i]]
    /\ peerRelayChan = [n \in {1} |-> <<>>]
    /\ ctxDone = [n \in {1} |-> FALSE]
    /\ packetChan = <<>>
    /\ totalReceived = 0 /\ totalForwarded = 0
    /\ totalDropped = 0 /\ totalErrors = 0
    /\ loop = [pc |-> "select", data |-> <<>>]
    /\ captureUp \in BOOLEAN
    /\ relayLog = <<>>
    /\ nFrames = 0
    /\ AdmitAtRest
    /\ StatsAtRest
    /\ RestAtRest
    /\ NoConfigFile

Next ==
    \/ \E data \in RelayPackets : nFrames < MaxFrames /\ CaptureDeliver(data)
    \/ LoopStep
    \/ \E e \in Ends, data \in RelayPackets :
           nFrames < MaxFrames /\ ClientSend(e, Frame(data))
    \/ \E e \in Ends : ServeRunStep(e)
    \/ Cancel(1)

Spec == InitRelay /\ [][Next]_vars

InitDedup ==
    /\ dedupSize \in 1..MaxCacheSize
    /\ dedup = NewDedupCache(dedupSize)
    /\ calls = <<>>
    /\ peer = <<>> /\ run = <<>> /\ conn = <<>>
    /\ peers = <<>> /\ peerRelayChan = <<>> /\ ctxDone = <<>>
    /\ RelayAtRest
    /\ AdmitAtRest
    /\ StatsAtRest
    /\ RestAtRest
    /\ NoConfigFile

NextDedup == \E data \in Packets : CallIsDuplicate(data)

SpecDedup == InitDedup /\ [][NextDedup]_vars

\* SpecBoot: Start is called on a new server for every combination of a
\* capture that starts or fails, TLS on or off, a TLS pair that loads or
\* not, a listen address that can be bound or not, and up to MaxPeersCfg
\* configured peers; SetDemoMode switches the demo mode on or off, before
\* Start (as main does) or after it, and in demo mode Start launches
\* runDemo instead, which waits for the first tick of its ticker (its
\* iterations are followed in SpecDemo); CollectStats is called meanwhile.
InitBoot ==
    /\ DedupAtRest
    /\ RelayAtRest
    /\ AdmitAtRest
    /\ StatsAtRest
    /\ peer = <<>> /\ run = <<>> /\ conn = <<>>
    /\ peers = [n \in {1} |-> <<>>]
    /\ peerRelayChan = [n \in {1} |-> <<>>]
    /\ ctxDone = [n \in {1} |-> FALSE]
    /\ callers = <<>>
    /\ ttl = DedupCacheTTL
    /\ now = 0
    /\ addp = NoAddPeer
    /\ dialer = <<>>
    /\ snap = NoSnapshot
    /\ \E capture \in {"ok", "no_iface", "open_failed"},
          disableSSL \in BOOLEAN, certOK \in BOOLEAN, listenOK \in BOOLEAN,
          nPeers \in 0..MaxPeersCfg :
            boot = [NotStarted EXCEPT !.capture = capture,
                                      !.disableSSL = disableSSL,
                                      !.certOK = certOK,
                                      !.listenOK = listenOK,
                                      !.nPeers = nPeers]
    /\ NoConfigFile

NextBoot ==
    \/ StartCapture
    \/ StartGoListen
    \/ StartGoDial
    \/ StartGoLoop
    \/ StartReturn
    \/ ListenSetup
    \/ StatsStep
    \/ \E enabled \in BOOLEAN : SetDemoMode(enabled)
    \/ StartDemo

SpecBoot == InitBoot /\ [][NextBoot]_vars

\* SpecSnap: the fan-out loop works on captured frames (no peer is
\* connected) while CollectStats is called.
InitSnap ==
    /\ InitRelay
    /\ peer = <<>>
    /\ captureUp

NextSnap ==
    \/ \E data \in RelayPackets : nFrames < MaxFrames /\ CaptureDeliver(data)
    \/ LoopCapture
    \/ LoopCapDedup
    \/ LoopCapDrop
    \/ LoopCapBroadcast
    \/ LoopCapForward
    \/ StatsStep

SpecSnap == InitSnap /\ [][NextSnap]_vars

\* SpecDedupTTL: IsDuplicate calls on a cache made with a TTL of one or
\* more seconds, while time passes.
InitDedupTTL ==
    /\ dedupSize \in 1..MaxCacheSize
    /\ dedup = NewDedupCache(dedupSize)
    /\ calls = <<>>
    /\ peer = <<>> /\ run = <<>> /\ conn = <<>>
    /\ peers = <<>> /\ peerRelayChan = <<>> /\ ctxDone = <<>>
    /\ RelayAtRest
    /\ AdmitAtRest
    /\ StatsAtRest
    /\ callers = <<>>
    /\ ttl \in 1..MaxTTL
    /\ now = 0
    /\ snap = NoSnapshot
    /\ boot = NotStarted
    /\ addp = NoAddPeer
    /\ dialer = <<>>
    /\ NoConfigFile

NextDedupTTL ==
    \/ \E data \in Packets : Len(calls) < MaxTTLCalls /\ CallIsDuplicate(data)
    \/ Tick

SpecDedupTTL == InitDedupTTL /\ [][NextDedupTTL]_vars

\* SpecDedupCalls: several goroutines call IsDuplicate on one cache at the
\* same time, each once.
Callers == 1..MaxCallers

InitDedupCalls ==
    /\ dedupSize \in 1..MaxCacheSize
    /\ dedup = NewDedupCache(dedupSize)
    /\ calls = <<>>
    /\ peer = <<>> /\ run = <<>> /\ conn = <<>>
    /\ peers = <<>> /\ peerRelayChan = <<>> /\ ctxDone = <<>>
    /\ RelayAtRest
    /\ AdmitAtRest
    /\ StatsAtRest
    /\ callers = [c \in Callers |-> [pc |-> "idle", data |-> <<>>,
                                     dup |-> FALSE]]
    /\ ttl = DedupCacheTTL
    /\ now = 0
    /\ snap = NoSnapshot
    /\ boot = NotStarted
    /\ addp = NoAddPeer
    /\ dialer = <<>>
    /\ NoConfigFile

NextDedupCalls ==
    \/ \E c \in Callers, data \in Packets : DedupCall(c, data)
    \/ \E c \in Callers : DedupContains(c)
    \/ \E c \in Callers : DedupAdd(c)

SpecDedupCalls == InitDedupCalls /\ [][NextDedupCalls]_vars

\* The admission path of SpecAdmit: server 1 after Start, outside demo
\* mode, made without a configuration file, without a network key and
\* with a max_children of 0 or more; nobody is banned yet and no connection
\* has been accepted or dialed.  The far sides send nothing and keep their
\* connections open, so of Run only the wait for a key, the two
\* goroutines, their ends and the deferred calls take steps.
\* The arguments of the BanPeer calls: a connection's id with its host
\* (which is the host of the other connection too), and a host alone.
BanInputs ==
    {<<RemoteAddr(1), SplitHostPort(RemoteAddr(1))>>,
     <<"", SplitHostPort(RemoteAddr(2))>>}

InitAdmit ==
    /\ DedupAtRest
    /\ RelayAtRest
    /\ \E m \in 0..MaxChildrenCfg :
         cfg = [DefaultConfig EXCEPT !.MaxChildren = m]
    /\ hnc = [e \in AdmitEnds |-> NotArrived]
    /\ ban = [c \in 1..MaxBans |-> NoBan]
    /\ admitLog = <<>>
    /\ StatsAtRest
    /\ CallsAtRest
    /\ boot = Started(Cardinality(AdmitDialed))
    /\ dialer = [d \in AdmitDialed |->
                   ConnectToPeer("server", RemoteAddr(d), d)]
    /\ peer = <<>> /\ run = <<>>
    /\ conn = [e \in AdmitEnds |->
                 [node |-> 1, other |-> 0, rx |-> <<>>, written |-> <<>>,
                  closed |-> FALSE, remoteClosed |-> FALSE]]
    /\ peers = [n \in {1} |-> <<>>]
    /\ peerRelayChan = [n \in {1} |-> <<>>]
    /\ ctxDone = [n \in {1} |-> FALSE]
    /\ NoConfigFile

NextAdmit ==
    \/ \E e \in AdmitInbound : Accept(e)
    \/ ListenerClose
    \/ ListenReturn(AdmitInbound)
    \/ \E d \in DOMAIN dialer : DialerStep(d)
    \/ \E e \in AdmitEnds : HncBanIDs(e)
    \/ \E e \in AdmitEnds : HncBanHosts(e)
    \/ \E e \in AdmitEnds : HncChildCount(e)
    \/ \E e \in AdmitEnds : HncChildCheck(e)
    \/ \E e \in AdmitEnds : HncNewPeer(e)
    \/ \E e \in AdmitEnds : HncInsert(e)
    \/ \E e \in AdmitEnds : HncReturn(e)
    \/ \E e \in DOMAIN run : HsPeek(e)
    \/ \E e \in DOMAIN run : Spawn(e)
    \/ \E e \in DOMAIN run : RecvLen(e)
    \/ \E e \in DOMAIN run : SendSelect(e)
    \/ \E e \in DOMAIN run : Wait(e)
    \/ \E e \in DOMAIN run : RunOnDisconnect(e)
    \/ \E e \in DOMAIN run : RunClose(e)
    \/ \E c \in DOMAIN ban, b \in BanInputs : BanPeer(c, b[1], b[2])
    \/ \E c \in DOMAIN ban : BanPeerStep(c)
    \/ Cancel(1)

SpecAdmit == InitAdmit /\ [][NextAdmit]_vars

\* SpecChild: the child limit of server 1 (after Start, outside demo mode,
\* made by main with the default path of the configuration file) while the
\* operator changes the configuration: requests to the API call
\* UpdateConfig and the TUI's editor writes max_children.  One client connects and one configured
\* peer is dialed; the far sides send nothing and keep their connections
\* open and the context is not cancelled, so no link ends.
\* The configuration requests of the API (admin_pass, max_children,
\* network_key, each of them set or left out) and the numbers typed into
\* the editor.
ConfigRequests ==
    {<<"", 0, KeyAlpha>>} \cup {<<"", m, NoKey>> : m \in 1..MaxChildrenCfg}
EditorInputs == {-1, 0, 1}

InitChild ==
    /\ DedupAtRest
    /\ RelayAtRest
    /\ \E m \in 1..MaxChildrenCfg :
         cfg = [DefaultConfig EXCEPT !.MaxChildren = m]
    /\ hnc = [e \in AdmitEnds |-> NotArrived]
    /\ ban = <<>>
    /\ admitLog = <<>>
    /\ StatsAtRest
    /\ CallsAtRest
    /\ boot = Started(Cardinality(AdmitDialed))
    /\ dialer = [d \in AdmitDialed |->
                   ConnectToPeer("server", RemoteAddr(d), d)]
    /\ peer = <<>> /\ run = <<>>
    /\ conn = [e \in AdmitEnds |-> FreshConn]
    /\ peers = [n \in {1} |-> <<>>]
    /\ peerRelayChan = [n \in {1} |-> <<>>]
    /\ ctxDone = [n \in {1} |-> FALSE]
    /\ ConfigLoaded
    /\ upd = [u \in 1..MaxUpdaters |-> NoUpdate]
    /\ tui = TUIIdle

NextChild ==
    \/ \E e \in AdmitInbound : Accept(e)
    \/ \E d \in DOMAIN dialer : DialerStep(d)
    \/ \E e \in AdmitEnds : HncBanIDs(e)
    \/ \E e \in AdmitEnds : HncBanHosts(e)
    \/ \E e \in AdmitEnds : HncChildCount(e)
    \/ \E e \in AdmitEnds : HncChildCheck(e)
    \/ \E e \in AdmitEnds : HncNewPeer(e)
    \/ \E e \in AdmitEnds : HncInsert(e)
    \/ \E e \in DOMAIN run : HsPeek(e)
    \/ \E e \in DOMAIN run : Spawn(e)
    \/ \E e \in DOMAIN run : HsSendLen(e)
    \/ \E e \in DOMAIN run : HsSendKey(e)
    \/ \E u \in DOMAIN upd, r \in ConfigRequests :
           UpdateConfig(u, r[1], r[2], r[3])
    \/ \E u \in DOMAIN upd : UpdateConfigStep(u)
    \/ \E n \in EditorInputs : ShowConfigEditorMaxChildren(n)

SpecChild == InitChild /\ [][NextChild]_vars

\* SpecSave: the deny lists and the configuration file of server 1 (made
\* by main with the default path) while API requests call BanPeer and
\* SetSortField and the operator edits the password and saves the
\* configuration in the TUI.  No peer is registered and no connection
\* arrives.
\* The arguments of the BanPeer calls, the password typed and the sort
\* field requested.
SaveBans == {<<RemoteAddr(1), "">>}
SaveTexts == {"tui"}
SaveFields == {"ip"}

InitSave ==
    /\ DedupAtRest
    /\ RelayAtRest
    /\ cfg = DefaultConfig
    /\ hnc = <<>>
    /\ ban = [c \in 1..MaxBanCalls |-> NoBan]
    /\ admitLog = <<>>
    /\ stats = [reg |-> {}, field |-> "id", reverse |-> FALSE,
                results |-> <<>>, call |-> NoCollect,
                set |-> [k \in 1..MaxSortCallers |-> NoSort]]
    /\ CallsAtRest
    /\ boot = Started(0)
    /\ dialer = <<>>
    /\ peer = <<>> /\ run = <<>> /\ conn = <<>>
    /\ peers = [n \in {1} |-> <<>>]
    /\ peerRelayChan = [n \in {1} |-> <<>>]
    /\ ctxDone = [n \in {1} |-> FALSE]
    /\ ConfigLoaded
    /\ upd = <<>>
    /\ tui = TUIIdle

NextSave ==
    \/ \E c \in DOMAIN ban, b \in SaveBans : BanPeer(c, b[1], b[2])
    \/ \E c \in DOMAIN ban : BanPeerStep(c)
    \/ \E text \in SaveTexts : ShowConfigEditorAdminPass(text)
    \/ \E k \in DOMAIN stats.set, field \in SaveFields \ {stats.field} :
           SetSortField(k, field)
    \/ \E k \in DOMAIN stats.set : SetSortFieldStep(k)
    \/ tui.saves < MaxSaves /\ ShowSaveDialogSave
    \/ ShowSaveDialogMarshal
    \/ ShowSaveDialogOpen
    \/ ShowSaveDialogWrite

SpecSave == InitSave /\ [][NextSave]_vars

\* SpecStats: CollectStats calls on a fixed registry of a server made
\* without a configuration file, with the sort configuration as loaded and
\* as the operator changes it through the API and in the TUI.
\* The registry holds some of four peers, as GetStats reports them: "a" and
\* "b" connected from one address and have equal packet counts, "ab" and
\* "c" differ from them; no two peers share an ID (the registry's key).
StatPool ==
    {[ID |-> <<97>>, IP |-> <<49, 48>>, Hostname |-> <<>>,
      ConnectedAt |-> 1, LastSeen |-> 4, NumChildren |-> 0,
      SentBytes |-> 0, RecvBytes |-> 2, SentPkts |-> 0, RecvPkts |-> 1,
      Errors |-> 0],
     [ID |-> <<98>>, IP |-> <<49, 48>>, Hostname |-> <<>>,
      ConnectedAt |-> 2, LastSeen |-> 4, NumChildren |-> 0,
      SentBytes |-> 0, RecvBytes |-> 1, SentPkts |-> 0, RecvPkts |-> 1,
      Errors |-> 1],
     [ID |-> <<97, 98>>, IP |-> <<57>>, Hostname |-> <<104>>,
      ConnectedAt |-> 3, LastSeen |-> 3, NumChildren |-> 1,
      SentBytes |-> 3, RecvBytes |-> 0, SentPkts |-> 2, RecvPkts |-> 0,
      Errors |-> 0],
     [ID |-> <<99>>, IP |-> <<49, 49>>, Hostname |-> <<104, 49>>,
      ConnectedAt |-> 3, LastSeen |-> 5, NumChildren |-> 0,
      SentBytes |-> 3, RecvBytes |-> 2, SentPkts |-> 1, RecvPkts |-> 2,
      Errors |-> 1]}

\* The values of cfg.SortField: the recognized ones and two others.
SortFields ==
    {"id", "ip", "hostname", "connected", "last_seen", "children",
     "sent_bytes", "recv_bytes", "sent_pkts", "recv_pkts", "errors",
     "", "name"}

InitStats ==
    /\ DedupAtRest
    /\ RelayAtRest
    /\ AdmitAtRest
    /\ RestAtRest
    /\ peer = <<>> /\ run = <<>> /\ conn = <<>>
    /\ peers = <<>> /\ peerRelayChan = <<>> /\ ctxDone = <<>>
    /\ \E reg \in SUBSET StatPool, field \in SortFields, reverse \in BOOLEAN :
        /\ Cardinality(reg) <= MaxStatPeers
        /\ stats = [reg |-> reg, field |-> field, reverse |-> reverse,
                    results |-> <<>>, call |-> NoCollect,
                    set |-> [k \in 1..MaxSortCallers |-> NoSort]]
    /\ NoConfigFile

\* The fields the operator sets while the server runs: two recognized
\* ones and one that is not.
SortInputs == {"ip", "recv_pkts", "name"}

\* The options the operator picks in the TUI's drop-down, of its eleven.
SortOptions == {"id", "recv_pkts"}

NextStats ==
    \/ CollectStats
    \/ \E k \in DOMAIN stats.set, field \in SortInputs : SetSortField(k, field)
    \/ \E k \in DOMAIN stats.set : SetSortFieldPersist(k)
    \/ \E option \in SortOptions : ShowSettingsSortBy(option)
    \/ \E checked \in BOOLEAN : ShowSettingsReverseSort(checked)

SpecStats == InitStats /\ [][NextStats]_vars

\* SpecBan: bans and arrivals at server 1, which has the network key
\* KeyAlpha, so that Run begins by writing the handshake to an admitted
\* connection.  The deny-lists start empty, and the API and the TUI call
\* BanPeer from goroutines of their own.  The far sides send nothing and
\* keep their connections open.
\* The arguments of the BanPeer calls: an id alone, and an id with its host
\* (the host of the other connection as well).
BanArgs ==
    {<<RemoteAddr(1), "">>,
     <<RemoteAddr(2), SplitHostPort(RemoteAddr(2))>>}

\* The connections that arrive in SpecBan: the inbound one and the first
\* dialed one.
BanEnds == {1, 2}

InitBan ==
    /\ DedupAtRest
    /\ RelayAtRest
    /\ StatsAtRest
    /\ CallsAtRest
    /\ boot = Started(1)
    /\ dialer = [d \in BanEnds \ AdmitInbound |->
                   ConnectToPeer("server", RemoteAddr(d), d)]
    /\ cfg = [DefaultConfig EXCEPT !.NetworkKey = KeyAlpha]
    /\ hnc = [e \in BanEnds |-> NotArrived]
    /\ ban = [c \in 1..MaxBanCalls |-> NoBan]
    /\ admitLog = <<>>
    /\ peer = <<>> /\ run = <<>>
    /\ conn = [e \in BanEnds |->
                 [node |-> 1, other |-> 0, rx |-> <<>>, written |-> <<>>,
                  closed |-> FALSE, remoteClosed |-> FALSE]]
    /\ peers = [n \in {1} |-> <<>>]
    /\ peerRelayChan = [n \in {1} |-> <<>>]
    /\ ctxDone = [n \in {1} |-> FALSE]
    /\ NoConfigFile

NextBan ==
    \/ \E e \in AdmitInbound : Accept(e)
    \/ \E d \in DOMAIN dialer : DialerStep(d)
    \/ \E e \in BanEnds : HncBanIDs(e)
    \/ \E e \in BanEnds : HncBanHosts(e)
    \/ \E e \in BanEnds : HncChildCount(e)
    \/ \E e \in BanEnds : HncChildCheck(e)
    \/ \E e \in BanEnds : HncNewPeer(e)
    \/ \E e \in BanEnds : HncInsert(e)
    \/ \E e \in BanEnds : HncReturn(e)
    \/ \E e \in DOMAIN run : HsSendLen(e)
    \/ \E e \in DOMAIN run : HsSendKey(e)
    \/ \E e \in DOMAIN run : HsReadLen(e)
    \/ \E e \in DOMAIN run : RunOnDisconnect(e)
    \/ \E e \in DOMAIN run : RunClose(e)
    \/ \E c \in DOMAIN ban, b \in BanArgs : BanPeer(c, b[1], b[2])
    \/ \E c \in DOMAIN ban : BanPeerStep(c)

SpecBan == InitBan /\ [][NextBan]_vars

\* SpecServe: server 1 without a network key and two admitted peers whose
\* handshakes are done and whose streams run.  The far sides are clients
\* that send frames or an oversized length prefix and may close; the
\* operator disconnects peers; the capture delivers frames to the loop.
ServeIDs == {RelayID(e) : e \in RelayEnds} \cup {"10.0.0.9:40009"}
ClientMsgs == {U32BE(Len(P1)) \o P1, U32BE(MaxFrame + 1)}
\* The ends whose client is active; the far side of the other end is quiet.
ServeClients == {1}

InitServe ==
    /\ DedupAtRest
    /\ RelayStarted
    /\ AdmitAtRest
    /\ StatsAtRest
    /\ RestAtRest
    /\ peer = [e \in RelayEnds |-> NewPeer(RelayID(e), NoKey)]
    /\ run = [e \in RelayEnds |->
                [NewRun(NoKey) EXCEPT !.hpc = "wait", !.rpc = "read_len",
                                      !.spc = "select"]]
    /\ conn = [e \in RelayEnds |->
                 [node |-> 1, other |-> 0, rx |-> <<>>, written |-> <<>>,
                  closed |-> FALSE, remoteClosed |-> FALSE]]
    /\ peers = [n \in {1} |-> [i \in {RelayID(e) : e \in RelayEnds} |->
                                  CHOOSE e \in RelayEnds : RelayID(e) = i]]
    /\ peerRelayChan = [n \in {1} |-> <<>>]
    /\ ctxDone = [n \in {1} |-> FALSE]
    /\ NoConfigFile

NextServe ==
    \/ \E e \in RelayEnds : ServeRunStep(e)
    \/ \E e \in ServeClients, bytes \in ClientMsgs :
           nFrames < MaxServeFrames /\ ClientSend(e, bytes)
    \/ \E e \in ServeClients : ClientClose(e)
    \/ \E data \in RelayPackets :
           nFrames < MaxServeFrames /\ CaptureDeliver(data)
    \/ LoopStep
    \/ \E id \in ServeIDs : DisconnectPeer(id)
    \/ Cancel(1)

SpecServe == InitServe /\ [][NextServe]_vars

\* The Go scheduler runs every goroutine that can take a step: those of
\* the links and the fan-out loop.
SpecServeFair ==
    /\ SpecServe
    /\ \A e \in RelayEnds : WF_vars(ServeRunStep(e))
    /\ WF_vars(LoopStep)

\* SpecAddPeer: AddPeer calls by API requests that run at the same time, in
\* and outside demo mode, on a configuration without peers or with one
\* (for which Start, outside demo mode, has launched a dialer).
AddCallers == 1..MaxAddCallers
AddrH == <<"h">>
AddrHPort == <<"h", ":", "8", "7", "8", "7">>
AddrV6 == <<"[", ":", ":", "1", "]">>
AddrV6Port == <<"[", ":", ":", "1", "]", ":", "9", "0">>
AddInputs == {AddrH, AddrHPort, AddrV6, AddrV6Port}

InitAddPeer ==
    /\ DedupAtRest
    /\ RelayAtRest
    /\ AdmitAtRest
    /\ StatsAtRest
    /\ peer = <<>> /\ run = <<>> /\ conn = <<>>
    /\ peers = [n \in {1} |-> <<>>]
    /\ peerRelayChan = [n \in {1} |-> <<>>]
    /\ ctxDone = [n \in {1} |-> FALSE]
    /\ callers = <<>>
    /\ ttl = DedupCacheTTL
    /\ now = 0
    /\ snap = NoSnapshot
    /\ boot = NotStarted
    /\ \E demoMode \in BOOLEAN, configured \in {<<>>, <<AddrHPort>>} :
        /\ addp = [peers |-> configured, demoMode |-> demoMode,
                   switched |-> FALSE,
                   call |-> [c \in AddCallers |->
                               [pc |-> "idle", addr |-> <<>>,
                                data |-> NoData]],
                   n |-> 0]
        /\ dialer = IF demoMode THEN <<>>
                    ELSE [d \in DOMAIN configured |->
                            ConnectToPeer("server", configured[d], 0)]
    /\ ConfigLoaded
    /\ upd = <<>>
    /\ tui = TUIIdle

NextAddPeer ==
    \/ \E c \in AddCallers, addr \in AddInputs : AddPeerCall(c, addr)
    \/ \E c \in AddCallers : AddPeerCheck(c)
    \/ \E c \in AddCallers : AddPeerAppend(c)
    \/ \E c \in AddCallers : AddPeerPersist(c)
    \/ \E c \in AddCallers : AddPeerMarshal(c)
    \/ \E c \in AddCallers : AddPeerOpen(c)
    \/ \E c \in AddCallers : AddPeerWrite(c)
    \/ \E c \in AddCallers : AddPeerSpawn(c)
    \/ \E d \in DOMAIN dialer : AddPeerHandlerReturn(d)
    \/ \E enabled \in BOOLEAN : SetDemoMode(enabled)
    \/ \E d \in DOMAIN dialer : DialerSelect(d)
    \/ \E d \in DOMAIN dialer : DialerDial(d)
    \/ \E d \in DOMAIN dialer : DialerSleep(d)

SpecAddPeer == InitAddPeer /\ [][NextAddPeer]_vars

\* SpecAddPeerDial: server 1 (made as the tests make it, no file, demo mode
\* off) with no configured peer, and AddPeer calls of API requests that
\* name [::1]:90, where a relay listens.  Two calls that both pass the
\* check launch two connectToPeer goroutines for the address, whose
\* connections (6 and 7) are live side by side, with the same peer ID.
\* The far side sends nothing and may close.
AddDialEnds == {6, 7}

InitAddPeerDial ==
    /\ DedupAtRest
    /\ RelayAtRest
    /\ StatsAtRest
    /\ callers = <<>>
    /\ ttl = DedupCacheTTL
    /\ now = 0
    /\ snap = NoSnapshot
    /\ boot = Started(0)
    /\ addp = [NoAddPeer EXCEPT !.call = [c \in AddCallers |->
                                            [pc |-> "idle", addr |-> <<>>,
                                             data |-> NoData]]]
    /\ dialer = <<>>
    /\ cfg = DefaultConfig
    /\ hnc = [e \in AddDialEnds |-> NotArrived]
    /\ ban = <<>>
    /\ admitLog = <<>>
    /\ peer = <<>> /\ run = <<>>
    /\ conn = [e \in AddDialEnds |-> FreshConn]
    /\ peers = [n \in {1} |-> <<>>]
    /\ peerRelayChan = [n \in {1} |-> <<>>]
    /\ ctxDone = [n \in {1} |-> FALSE]
    /\ NoConfigFile

NextAddPeerDial ==
    \/ \E c \in AddCallers : AddPeerCall(c, AddrV6Port)
    \/ \E c \in AddCallers : AddPeerCheck(c)
    \/ \E c \in AddCallers : AddPeerAppend(c)
    \/ \E c \in AddCallers : AddPeerPersist(c)
    \/ \E c \in AddCallers : AddPeerSpawn(c)
    \/ \E d \in DOMAIN dialer : AddPeerHandlerReturn(d)
    \/ \E d \in DOMAIN dialer : DialerStep(d)
    \/ \E e \in AddDialEnds : HncBanIDs(e)
    \/ \E e \in AddDialEnds : HncBanHosts(e)
    \/ \E e \in AddDialEnds : HncChildCount(e)
    \/ \E e \in AddDialEnds : HncChildCheck(e)
    \/ \E e \in AddDialEnds : HncNewPeer(e)
    \/ \E e \in AddDialEnds : HncInsert(e)
    \/ \E e \in AddDialEnds : HncReturn(e)
    \/ \E e \in DOMAIN run : HsPeek(e)
    \/ \E e \in DOMAIN run : Spawn(e)
    \/ \E e \in DOMAIN run : RecvLen(e)
    \/ \E e \in DOMAIN run : SendSelect(e)
    \/ \E e \in DOMAIN run : Wait(e)
    \/ \E e \in DOMAIN run : RunOnDisconnect(e)
    \/ \E e \in DOMAIN run : RunClose(e)
    \/ \E e \in AddDialEnds : ClientClose(e)

SpecAddPeerDial == InitAddPeerDial /\ [][NextAddPeerDial]_vars

\* SpecDemo: a new server made without a configuration file, as the test
\* of the demo mode makes it: the demo mode is switched on and Start
\* launches runDemo, whose ticker ticks every second.  The demo mode may
\* be switched again and UpdateDemoProps called at any time, before Start
\* and while runDemo runs, so that demo peers are added and removed.
\* SpecDemoDial: the same server with the demo properties NewServer gives
\* it and one AddPeer call, which names [::1]:90, where a relay
\* listens: outside the demo mode it launches a dialer, whose connection
\* handleNewConn admits or rejects with the demo peers in the registry.
DemoProps == {<<100, 5, 2, 4>>, <<4, 1, 2, 2>>}
DemoDialEnds == {6}

InitDemo ==
    /\ DedupAtRest
    /\ RelayAtRest
    /\ StatsAtRest
    /\ callers = <<>>
    /\ ttl = DedupCacheTTL
    /\ now = 0
    /\ snap = NoSnapshot
    /\ boot = NotStarted
    /\ addp = [NoAddPeer EXCEPT !.call = [c \in {1} |->
                                            [pc |-> "idle", addr |-> <<>>,
                                             data |-> NoData]]]
    /\ dialer = <<>>
    /\ \E m \in {1, DefaultConfig.MaxChildren} :
         cfg = [DefaultConfig EXCEPT !.MaxChildren = m]
    /\ hnc = [e \in DemoDialEnds |-> NotArrived]
    /\ ban = <<>>
    /\ admitLog = <<>>
    /\ peer = <<>> /\ run = <<>>
    /\ conn = [e \in DemoDialEnds |-> FreshConn]
    /\ peers = [n \in {1} |-> <<>>]
    /\ peerRelayChan = [n \in {1} |-> <<>>]
    /\ ctxDone = [n \in {1} |-> FALSE]
    /\ configPath = ""
    /\ configFile = NoFile
    /\ upd = <<>>
    /\ tui = TUIIdle
    /\ demo = [NoDemo EXCEPT !.set = [k \in 1..MaxDemoCallers |->
                                        NoDemoUpdate]]

NextDemo ==
    \/ \E enabled \in BOOLEAN : SetDemoMode(enabled)
    \/ \E k \in DOMAIN demo.set, p \in DemoProps :
           UpdateDemoProps(k, p[1], p[2], p[3], p[4])
    \/ \E k \in DOMAIN demo.set : UpdateDemoPropsStep(k)
    \/ StartDemo
    \/ TickerTick
    \/ RunDemoStep
    \/ Cancel(1)

SpecDemo == InitDemo /\ [][NextDemo]_vars

NextDemoDial ==
    \/ \E enabled \in BOOLEAN : SetDemoMode(enabled)
    \/ StartDemo
    \/ TickerTick
    \/ RunDemoStep
    \/ addp.n < 1 /\ AddPeerCall(1, AddrV6Port)
    \/ AddPeerCheck(1)
    \/ AddPeerAppend(1)
    \/ AddPeerPersist(1)
    \/ AddPeerSpawn(1)
    \/ \E d \in DOMAIN dialer : AddPeerHandlerReturn(d)
    \/ \E d \in DOMAIN dialer : DialerStep(d)
    \/ \E e \in DemoDialEnds : HncBanIDs(e)
    \/ \E e \in DemoDialEnds : HncBanHosts(e)
    \/ \E e \in DemoDialEnds : HncChildCount(e)
    \/ \E e \in DemoDialEnds : HncChildCheck(e)
    \/ \E e \in DemoDialEnds : HncNewPeer(e)
    \/ \E e \in DemoDialEnds : HncInsert(e)
    \/ \E e \in DemoDialEnds : HncReturn(e)
    \/ \E e \in DOMAIN run : HsPeek(e)
    \/ \E e \in DOMAIN run : Spawn(e)
    \/ \E e \in DOMAIN run : RecvLen(e)
    \/ \E e \in DOMAIN run : SendSelect(e)
    \/ \E e \in DOMAIN run : Wait(e)
    \/ \E e \in DOMAIN run : RunOnDisconnect(e)
    \/ \E e \in DOMAIN run : RunClose(e)
    \/ \E e \in DemoDialEnds : ClientClose(e)
    \/ Cancel(1)

SpecDemoDial == InitDemo /\ [][NextDemoDial]_vars

\* SpecListen: the listener of server 1 (default configuration, no network
\* key) with two clients, on hosts 10.0.0.2 and 10.0.0.4, that connect, send
\* nothing and may close, while the capture delivers frames to the loop.
ListenEnds == {1, 4}

InitListen ==
    /\ DedupAtRest
    /\ RelayStarted
    /\ StatsAtRest
    /\ CallsAtRest
    /\ boot = Started(0)
    /\ dialer = <<>>
    /\ cfg = DefaultConfig
    /\ hnc = [e \in ListenEnds |-> NotArrived]
    /\ ban = <<>>
    /\ admitLog = <<>>
    /\ peer = <<>> /\ run = <<>>
    /\ conn = [e \in ListenEnds |-> FreshConn]
    /\ peers = [n \in {1} |-> <<>>]
    /\ peerRelayChan = [n \in {1} |-> <<>>]
    /\ ctxDone = [n \in {1} |-> FALSE]
    /\ NoConfigFile

NextListen ==
    \/ \E e \in ListenEnds : AcceptFrom(ListenEnds, e)
    \/ ListenerClose
    \/ ListenReturn(ListenEnds)
    \/ \E e \in ListenEnds : HncBanIDs(e)
    \/ \E e \in ListenEnds : HncBanHosts(e)
    \/ \E e \in ListenEnds : HncChildCount(e)
    \/ \E e \in ListenEnds : HncChildCheck(e)
    \/ \E e \in ListenEnds : HncNewPeer(e)
    \/ \E e \in ListenEnds : HncInsert(e)
    \/ \E e \in ListenEnds : HncReturn(e)
    \/ \E e \in DOMAIN run : HsPeek(e)
    \/ \E e \in DOMAIN run : Spawn(e)
    \/ \E e \in DOMAIN run : RecvLen(e)
    \/ \E e \in DOMAIN run : SendSelect(e)
    \/ \E e \in DOMAIN run : SendWriteLen(e)
    \/ \E e \in DOMAIN run : SendWriteData(e)
    \/ \E e \in DOMAIN run : Wait(e)
    \/ \E e \in DOMAIN run : RunOnDisconnect(e)
    \/ \E e \in DOMAIN run : RunClose(e)
    \/ \E e \in ListenEnds : ClientClose(e)
    \/ nFrames < MaxServeFrames /\ CaptureDeliver(P1)
    \/ LoopCaptureStep
    \/ Cancel(1)

SpecListen == InitListen /\ [][NextListen]_vars

\* SpecDial: two connectToPeer goroutines of server 1 (no network key) whose
\* addresses, a host name and the IP address it resolves to, lead to the
\* same remote endpoint 10.0.0.3:8787, so both connections get the same
\* peer ID.  The host is on the deny-list from the start or not.  The far
\* side sends nothing and may close; up to MaxDialFrames frames are
\* captured.
Dialers == {1, 2}
\* Frames captured in SpecDial.
MaxDialFrames == 2
DialEnd(d) == IF d = 1 THEN 3 ELSE 5
DialAddr(d) == IF d = 1 THEN "10.0.0.3:8787" ELSE "relay3.example:8787"
DialEnds == {DialEnd(d) : d \in Dialers}

InitDial ==
    /\ DedupAtRest
    /\ RelayStarted
    /\ StatsAtRest
    /\ callers = <<>>
    /\ ttl = DedupCacheTTL
    /\ now = 0
    /\ snap = NoSnapshot
    /\ boot = Started(Cardinality(Dialers))
    /\ addp = NoAddPeer
    /\ dialer = [d \in Dialers |->
                   ConnectToPeer("server", DialAddr(d), DialEnd(d))]
    /\ \E hosts \in {<<>>, <<SplitHostPort(RemoteAddr(3))>>} :
         cfg = [DefaultConfig EXCEPT !.BannedHosts = hosts]
    /\ hnc = [e \in DialEnds |-> NotArrived]
    /\ ban = <<>>
    /\ admitLog = <<>>
    /\ peer = <<>> /\ run = <<>>
    /\ conn = [e \in DialEnds |-> FreshConn]
    /\ peers = [n \in {1} |-> <<>>]
    /\ peerRelayChan = [n \in {1} |-> <<>>]
    /\ ctxDone = [n \in {1} |-> FALSE]
    /\ NoConfigFile

NextDial ==
    \/ \E d \in Dialers : DialerStep(d)
    \/ \E e \in DialEnds : HncBanIDs(e)
    \/ \E e \in DialEnds : HncBanHosts(e)
    \/ \E e \in DialEnds : HncChildCount(e)
    \/ \E e \in DialEnds : HncChildCheck(e)
    \/ \E e \in DialEnds : HncNewPeer(e)
    \/ \E e \in DialEnds : HncInsert(e)
    \/ \E e \in DialEnds : HncReturn(e)
    \/ \E e \in DOMAIN run : HsPeek(e)
    \/ \E e \in DOMAIN run : Spawn(e)
    \/ \E e \in DOMAIN run : RecvLen(e)
    \/ \E e \in DOMAIN run : SendSelect(e)
    \/ \E e \in DOMAIN run : SendWriteLen(e)
    \/ \E e \in DOMAIN run : SendWriteData(e)
    \/ \E e \in DOMAIN run : Wait(e)
    \/ \E e \in DOMAIN run : RunOnDisconnect(e)
    \/ \E e \in DOMAIN run : RunClose(e)
    \/ \E e \in DialEnds : ClientClose(e)
    \/ nFrames < MaxDialFrames /\ CaptureDeliver(P1)
    \/ LoopCaptureStep
    \/ Cancel(1)

SpecDial == InitDial /\ [][NextDial]_vars

\* The Go scheduler runs the dialer goroutines, dials and sleeps end, and a
\* handleNewConn whose Run has returned returns.
SpecDialFair ==
    /\ SpecDial
    /\ \A d \in Dialers : WF_vars(DialerStep(d))
    /\ \A e \in DialEnds : WF_vars(HncReturn(e))

\* The cache after the i-th recorded call.
CacheAfter(i) == IF i = Len(calls) THEN dedup ELSE calls[i + 1].before

\* The arguments of the recorded calls.
CallData == [i \in 1..Len(calls) |-> calls[i].data]

IsPrefix(s, t) == Len(s) <= Len(t) /\ SubSeq(t, 1, Len(s)) = s

\* The recorded calls before the i-th that inserted key (were misses on it).
InsertsBefore(i, key) ==
    {j \in 1..(i - 1) : Sum256(calls[j].data) = key /\ ~calls[j].dup}

\* The recorded calls before the i-th that used key (hit or miss).
UsesBefore(i, key) == {j \in 1..(i - 1) : Sum256(calls[j].data) = key}

SetMax(S) == CHOOSE x \in S : \A y \in S : y <= x

\* The keys the i-th recorded call removed from the cache.
EvictedBy(i) == Range(calls[i].before) \ Range(CacheAfter(i))

\* C3: IsDuplicate returns true exactly when the frame's fingerprint was in
\* the store at the time of the call; after a false result the fingerprint
\* is in the store, so the same frame called next is a duplicate; and the
\* call puts no other frame's fingerprint into the store, so a different
\* frame that was not stored is still not a duplicate on the next call.
IsDuplicateIffPresent ==
    \A i \in 1..Len(calls) :
        LET c == calls[i]
            key == Sum256(c.data)
            after == CacheAfter(i)
        IN  /\ c.dup <=> key \in Range(c.before)
            /\ ~c.dup => key \in Range(after)
            /\ \A g \in Packets \ {c.data} :
                   Sum256(g) \in Range(after) => Sum256(g) \in Range(c.before)
            /\ i < Len(calls) /\ ~c.dup =>
                   /\ calls[i + 1].data = c.data => calls[i + 1].dup
                   /\ /\ calls[i + 1].data # c.data
                      /\ Sum256(calls[i + 1].data) \notin Range(c.before)
                      => ~calls[i + 1].dup

\* C3's case: a first arrival (false), the same frame again (true), then a
\* different frame (false), as in TestDedupCache.
IsDuplicateIffPresentWitness ==
    /\ Len(calls) >= 3
    /\ ~calls[1].dup
    /\ calls[2].data = calls[1].data /\ calls[2].dup
    /\ calls[3].data # calls[1].data /\ ~calls[3].dup

\* C4: an insertion into a full store evicts exactly one entry, the least
\* recently used one (the one whose last use, hit or miss, lies furthest
\* back), keeps every other entry and retains the new fingerprint; with
\* capacity 2, after p1, p2, p2 (a hit), p3 the store holds p3 and no
\* longer p1, and a following call reports so.
EvictsLeastRecentlyUsed ==
    /\ \A i \in 1..Len(calls) :
           LET c == calls[i]
               key == Sum256(c.data)
               after == CacheAfter(i)
           IN  ~c.dup /\ Len(c.before) = dedupSize =>
                   /\ key \in Range(after)
                   /\ Len(after) = dedupSize
                   /\ Cardinality(EvictedBy(i)) = 1
                   /\ \A e \in EvictedBy(i) : \A k \in Range(c.before) :
                          SetMax(UsesBefore(i, e)) <= SetMax(UsesBefore(i, k))
    /\ dedupSize = 2 /\ IsPrefix(<<P1, P2, P2, P3>>, CallData) =>
           /\ ~calls[1].dup /\ ~calls[2].dup /\ calls[3].dup /\ ~calls[4].dup
           /\ Sum256(P1) \notin Range(CacheAfter(4))
           /\ Sum256(P3) \in Range(CacheAfter(4))
           /\ Len(calls) >= 5 /\ calls[5].data = P1 => ~calls[5].dup
           /\ Len(calls) >= 5 /\ calls[5].data = P3 => calls[5].dup

\* C5: a hit counts as a use: an insertion into a full store evicts the
\* entry whose last use (hit or miss) lies furthest back; with capacity 2,
\* after p1, p2, p1 (a hit), p3: p3 is then a hit and p2 is not.
HitRefreshesEntry ==
    /\ \A i \in 1..Len(calls) :
           ~calls[i].dup /\ Len(calls[i].before) = dedupSize =>
               \A e \in EvictedBy(i) : \A k \in Range(calls[i].before) :
                   SetMax(UsesBefore(i, e)) <= SetMax(UsesBefore(i, k))
    /\ dedupSize = 2 /\ CallData = <<P1, P2, P1, P3, P3, P2>> =>
           calls[5].dup /\ ~calls[6].dup

\* C23: a call on a frame whose fingerprint was last inserted more than the
\* TTL ago returns false, also when the entry is still in the cache.
ExpiredEntryMisses ==
    \A i \in 1..Len(calls) :
        LET ins == InsertsBefore(i, Sum256(calls[i].data))
        IN  /\ ins # {}
            /\ calls[i].at - calls[SetMax(ins)].at > ttl
            => ~calls[i].dup

\* C32: the store never holds more fingerprints than its capacity, each
\* once; a call that inserts into a full store removes exactly one entry, a
\* call that inserts into a store with room removes none, and a call that
\* is a hit leaves the store as it was.
StoreBounded ==
    /\ Len(dedup) <= dedupSize
    /\ Cardinality(Range(dedup)) = Len(dedup)
    /\ \A i \in 1..Len(calls) :
           LET c == calls[i]
               after == CacheAfter(i)
           IN  /\ Len(c.before) <= dedupSize
               /\ c.dup => after = c.before
               /\ ~c.dup /\ Len(c.before) = dedupSize =>
                      /\ Cardinality(EvictedBy(i)) = 1
                      /\ Len(after) = dedupSize
               /\ ~c.dup /\ Len(c.before) < dedupSize =>
                      /\ EvictedBy(i) = {}
                      /\ Len(after) = Len(c.before) + 1

\* C32's case: a store of capacity 2 was full; a hit left it as it was, and
\* the insertion after it removed one entry.
StoreBoundedWitness ==
    /\ dedupSize = 2
    /\ \E i \in 1..(Len(calls) - 1) :
           /\ Len(calls[i].before) = dedupSize
           /\ calls[i].dup
           /\ ~calls[i + 1].dup
           /\ Len(dedup) = dedupSize

\* The callers whose call has returned, the frames they passed, and those
\* of them that were told "new" for frame d.
Returned == {c \in DOMAIN callers : callers[c].pc = "returned"}
CalledWith == {callers[c].data : c \in Returned}
ToldNew(d) == {c \in Returned : callers[c].data = d /\ ~callers[c].dup}

\* C22: of the callers that invoke IsDuplicate concurrently with frames of
\* one fingerprint that is not stored yet, exactly one receives false.  (All
\* calls have returned; the cache started empty and had room for every
\* fingerprint passed, so nothing was evicted.)
OneMissPerFingerprint ==
    /\ Returned = DOMAIN callers
    /\ Cardinality(CalledWith) <= dedupSize
    => \A d \in CalledWith : Cardinality(ToldNew(d)) = 1

\* ------------------------------------------------- properties of Peer.Run

\* The handshake of e succeeded: its streams were started (RUNNING, or
\* later CLOSED after having run).
Ran(e) == run[e].hpc = "spawn" \/ run[e].rpc # "off"

\* The handshake of e failed: Run returned without starting the streams.
HsFailed(e) == run[e].hpc \in {"ondisconnect", "close", "done"} /\ run[e].rpc = "off"

\* Run of e has returned and the transport is closed (CLOSED).
Closed(e) == run[e].hpc = "done" /\ conn[e].closed

\* What a keyed end sends as its handshake: the length, then the key.
HsMsg(key) == U32BE(Len(key)) \o key

\* The bytes e has taken from its transport so far.
Consumed(e) == Len(conn[conn[e].other].written) - Len(conn[e].rx)

\* No data frame left e and e published nothing: all it wrote is (part of)
\* its handshake, its streams never started, its server's peer-ingress
\* channel is empty.
NoDataExchanged(e) ==
    /\ IsPrefix(conn[e].written, HsMsg(peer[e].networkKey))
    /\ run[e].rpc = "off" /\ run[e].spc = "off"
    /\ peer[e].sentPkts = 0 /\ peer[e].recvPkts = 0
    /\ peerRelayChan[conn[e].node] = <<>>

BothKeyed == \A e \in LinkEnds : peer[e].networkKey # NoKey
SameKey == peer[1].networkKey = peer[2].networkKey
KeyFits == \A e \in LinkEnds : Len(peer[e].networkKey) <= MaxKeyLen

\* C9 as stated, for non-empty keys of any length: with identical keys no
\* side fails the handshake, with different keys no side gets past it and
\* no data is exchanged.
HandshakeSymmetryAnyKey ==
    BothKeyed =>
        \A e \in LinkEnds :
            IF SameKey THEN ~HsFailed(e) ELSE ~Ran(e) /\ NoDataExchanged(e)

\* C9, amended: two connected ends with non-empty keys.  Identical keys of
\* at most 256 bytes: no side fails the handshake and both reach RUNNING.
\* Different keys, or identical keys longer than 256 bytes: no side reaches
\* RUNNING, no data frame is written or published, and both end in CLOSED.
HandshakeSymmetry ==
    /\ [](BothKeyed =>
            \A e \in LinkEnds :
                IF SameKey /\ KeyFits THEN ~HsFailed(e)
                ELSE ~Ran(e) /\ NoDataExchanged(e))
    /\ (BothKeyed /\ SameKey /\ KeyFits) ~> (Ran(1) /\ Ran(2))
    /\ (BothKeyed /\ ~(SameKey /\ KeyFits)) ~> (Closed(1) /\ Closed(2))

\* C9's case: both ends hold "alpha", both are RUNNING, and a frame one
\* side sent has been published by the other.
HandshakeSymmetryWitness ==
    /\ \A e \in LinkEnds : peer[e].networkKey = KeyAlpha /\ run[e].hpc = "wait"
    /\ peerRelayChan[2] # <<>>

\* One end has a network key (of at most 256 bytes) and the other has none.
MixedKeys ==
    \E e \in LinkEnds :
        /\ peer[e].networkKey # NoKey
        /\ Len(peer[e].networkKey) <= MaxKeyLen
        /\ peer[conn[e].other].networkKey = NoKey

\* C24: on a link between an end without a network key and an end with
\* one, neither side fails the handshake.
MixedKeysLinkStaysUp == MixedKeys => \A e \in LinkEnds : ~HsFailed(e)

\* C35: an end that has read a key length above 256 from the far side never
\* starts its streams, with or without a network key of its own.
OversizedKeyFatal ==
    \A e \in LinkEnds : run[e].remoteKeyLen > MaxKeyLen => ~Ran(e)

\* C36: every frame a receive stream has published to the peer-ingress
\* channel is between 1 and 2000 bytes long.
PublishedFrameSizes ==
    \A n \in DOMAIN peerRelayChan :
        \A i \in 1..Len(peerRelayChan[n]) :
            /\ Len(peerRelayChan[n][i]) >= 1
            /\ Len(peerRelayChan[n][i]) <= MaxFrame

\* C26: for every link that is run, onDisconnect is invoked exactly once:
\* not before Run returns, once when it has returned (after a failed
\* handshake as after the end of the streams), never twice; and the entry
\* is then out of the registry.
DeletionOnce ==
    \A e \in DOMAIN run :
        /\ run[e].disc = IF run[e].hpc \in {"close", "done"} THEN 1 ELSE 0
        /\ run[e].hpc = "done" =>
               peer[e].ID \notin DOMAIN peers[conn[e].node]

\* C26's case: one end's handshake failed, the other end ran its streams
\* until they ended; both Runs have returned and each invoked the callback
\* once.
DeletionOnceWitness ==
    \E e1, e2 \in LinkEnds :
        /\ HsFailed(e1)
        /\ run[e2].rpc = "done" /\ run[e2].spc = "done"
        /\ run[e1].hpc = "done" /\ run[e2].hpc = "done"
        /\ run[e1].disc = 1 /\ run[e2].disc = 1

\* C10: an end with a network key writes its handshake (u32 big-endian
\* length, then the key) before it reads anything; its streams start only
\* when the key it received, the one the far side sent, equals its own byte
\* for byte; when the handshake fails (a key mismatch among the failures) the
\* streams never start, no data frame is written, nothing is published, and
\* once Run has returned the transport is closed and the peer is out of the
\* registry.
KeyedHandshake ==
    \A e \in LinkEnds :
        peer[e].networkKey # NoKey =>
            /\ run[e].hpc \in {"hs_send_len", "hs_send_key"} =>
                   /\ Consumed(e) = 0
                   /\ IsPrefix(conn[e].written, HsMsg(peer[e].networkKey))
            /\ Consumed(e) > 0 \/ Ran(e) =>
                   IsPrefix(HsMsg(peer[e].networkKey), conn[e].written)
            /\ Ran(e) =>
                   /\ run[e].remoteKey = peer[e].networkKey
                   /\ IsPrefix(HsMsg(peer[e].networkKey), conn[conn[e].other].written)
            /\ HsFailed(e) => NoDataExchanged(e)
            /\ HsFailed(e) /\ run[e].hpc = "done" =>
                   /\ conn[e].closed
                   /\ peer[e].ID \notin DOMAIN peers[conn[e].node]

\* C10's case: local key "alpha", the remote sent "omega": Run has returned
\* on the mismatch while a frame was waiting in the peer's egress queue.
KeyedHandshakeWitness ==
    /\ peer[1].networkKey = KeyAlpha
    /\ run[1].remoteKey = KeyOmega
    /\ run[1].hpc = "done"
    /\ peer[1].SendChan # <<>>

\* -------------------------------------------- properties of the fan-out loop

\* The cache before the i-th finished iteration of the loop.
StoreBefore(i) == IF i = 1 THEN NewDedupCache(dedupSize) ELSE relayLog[i - 1].store

\* The fingerprint of data was in the cache from the end of iteration i up
\* to the start of iteration j.
StaysStored(data, i, j) ==
    \A k \in i..(j - 1) : Sum256(data) \in Range(relayLog[k].store)

\* The finished iterations of one source, and those among them with one
\* verdict of the cache.
LogOf(src) == {i \in 1..Len(relayLog) : relayLog[i].src = src}
LogOfDup(src, dup) == {i \in LogOf(src) : relayLog[i].dup = dup}

\* C1: every captured frame counts once in total_received and then either
\* is a duplicate (fingerprint in the store at that time), counts once in
\* total_dropped and is enqueued to no peer, or is put at most once into each
\* peer's egress queue and counts once in total_forwarded.  The same frame
\* captured again while its fingerprint stays stored is dropped: captured
\* twice it reaches each registered peer once (it is in the peer's queue, in
\* its sender's hands or written), with received 2, forwarded 1, dropped 1.
FanOutOncePerFrame ==
    /\ totalReceived = Cardinality(LogOf("capture"))
                       + (IF loop.pc \in {"cap_dedup", "cap_drop", "cap_broadcast"}
                          THEN 1 ELSE 0)
    /\ totalDropped = Cardinality(LogOfDup("capture", TRUE))
    /\ totalForwarded = Cardinality(LogOfDup("capture", FALSE))
                        - (IF loop.pc = "cap_forward" THEN 1 ELSE 0)
    /\ \A i \in LogOf("capture") :
           /\ relayLog[i].dup <=> Sum256(relayLog[i].data) \in Range(StoreBefore(i))
           /\ relayLog[i].inject = "none"
           /\ \A e \in Ends :
                  IF relayLog[i].dup THEN relayLog[i].added[e] = 0
                  ELSE relayLog[i].added[e] \in {0, 1}
    /\ \A i, j \in LogOf("capture") :
           /\ i < j
           /\ relayLog[i].data = relayLog[j].data
           /\ StaysStored(relayLog[i].data, i, j)
           => relayLog[j].dup /\ \A e \in Ends : relayLog[j].added[e] = 0
    /\ /\ Len(relayLog) = 2 /\ LogOf("capture") = {1, 2}
       /\ relayLog[1].data = P1 /\ relayLog[2].data = P1
       /\ loop.pc = "select"
       => /\ totalReceived = 2 /\ totalForwarded = 1 /\ totalDropped = 1
          /\ \A e \in Registered(1) :
                 /\ relayLog[1].added[e] = 1 /\ relayLog[2].added[e] = 0
                 /\ peer[e].sentPkts + Len(peer[e].SendChan)
                        + (IF run[e].spc \in {"write_len", "write_data"}
                           THEN 1 ELSE 0) = 1

\* C1's case: [0x01 0x02] was captured twice with two peers registered; the
\* first was broadcast and has been written to both peers, the second was
\* dropped.
FanOutOncePerFrameWitness ==
    /\ Len(relayLog) = 2 /\ LogOf("capture") = {1, 2}
    /\ relayLog[1].data = P1 /\ relayLog[2].data = P1
    /\ ~relayLog[1].dup /\ relayLog[2].dup
    /\ Ends = {1, 2}
    /\ \A e \in Ends : conn[e].written = U32BE(2) \o P1
    /\ loop.pc = "select"

\* C2: a frame from a peer whose fingerprint is in the store is a duplicate
\* and is neither injected nor enqueued to a peer; a new one goes to
\* capture.Inject exactly once (and to no peer's queue); for one fingerprint
\* two Inject calls happen only when it left the store in between.
NoLoops ==
    /\ \A i \in LogOf("peer") :
           /\ relayLog[i].dup <=> Sum256(relayLog[i].data) \in Range(StoreBefore(i))
           /\ relayLog[i].dup <=> relayLog[i].inject = "none"
           /\ \A e \in Ends : relayLog[i].added[e] = 0
    /\ \A i, j \in 1..Len(relayLog) :
           /\ i < j
           /\ relayLog[i].data = relayLog[j].data
           /\ relayLog[i].inject # "none" /\ relayLog[j].inject # "none"
           => ~StaysStored(relayLog[i].data, i, j)
    /\ \A i, j \in 1..Len(relayLog) :
           /\ i < j
           /\ relayLog[i].data = relayLog[j].data
           /\ relayLog[j].src = "peer"
           /\ StaysStored(relayLog[i].data, i, j)
           => relayLog[j].dup
    /\ loop.pc = "peer_inject" => Sum256(loop.data) \in Range(dedup)

\* C2's case: a peer sent [0xAA], it was injected; the other peer sent it
\* back and it was dropped.
NoLoopsWitness ==
    /\ Len(relayLog) = 2 /\ LogOf("peer") = {1, 2}
    /\ relayLog[1].data = P2 /\ relayLog[1].inject = "ok"
    /\ relayLog[2].data = P2 /\ relayLog[2].dup
    /\ \A e \in {1, 2} : e \in Ends /\ peer[e].recvPkts = 1

\* C21: broadcastToPeers never blocks, and a full SendChan drops the frame
\* for that peer alone: every registered peer with room gets the frame, the
\* others keep their queues, total_dropped stays and total_forwarded is
\* incremented all the same.
FullQueueSilentDrop ==
    /\ [](loop.pc = "cap_broadcast" => ENABLED LoopCapBroadcast)
    /\ [][/\ loop.pc = "cap_broadcast" /\ loop'.pc = "cap_forward" =>
               /\ \A e \in Ends :
                      peer'[e].SendChan =
                          IF e \in Registered(1)
                             /\ Len(peer[e].SendChan) < ChanCap
                          THEN Append(peer[e].SendChan, loop.data)
                          ELSE peer[e].SendChan
               /\ totalDropped' = totalDropped
          /\ loop.pc = "cap_forward" /\ loop'.pc = "select" =>
               /\ totalForwarded' = totalForwarded + 1
               /\ totalDropped' = totalDropped]_vars

\* C21's case: a new captured frame found one peer's queue full and the
\* other's with room; it went to the other, counts as forwarded, and
\* nothing counts as dropped.
FullQueueSilentDropWitness ==
    /\ loop.pc = "select"
    /\ totalDropped = 0
    /\ totalForwarded = Len(relayLog)
    /\ \E i \in LogOfDup("capture", FALSE) :
           \E e1, e2 \in Ends :
               /\ relayLog[i].added[e1] = 0
               /\ Len(peer[e1].SendChan) = ChanCap
               /\ relayLog[i].added[e2] = 1

\* C33: a frame from a peer that the cache reports as new goes to
\* capturer.Inject once, and the call never keeps the loop waiting.  When
\* Inject fails, total_errors grows by 1; when it succeeds, it stays.  In
\* both cases total_received, total_forwarded and total_dropped stay, no
\* peer's egress queue changes, and the loop is back at its select.
InjectFailureCounted ==
    /\ [](loop.pc = "peer_inject" => ENABLED LoopPeerInject)
    /\ [][loop.pc = "peer_dedup" /\ loop'.pc = "peer_inject" =>
              ~IsDuplicateResult(dedup, loop.data)]_vars
    /\ [][loop.pc = "peer_inject" /\ loop'.pc # "peer_inject" =>
              /\ loop'.pc = "select"
              /\ Len(relayLog') = Len(relayLog) + 1
              /\ LET r == relayLog'[Len(relayLog')]
                 IN  /\ r.src = "peer" /\ r.data = loop.data /\ ~r.dup
                     /\ r.inject \in {"ok", "err"}
                     /\ ~captureUp => r.inject = "err"
                     /\ totalErrors' =
                            IF r.inject = "err" THEN totalErrors + 1
                            ELSE totalErrors
              /\ totalReceived' = totalReceived
              /\ totalForwarded' = totalForwarded
              /\ totalDropped' = totalDropped
              /\ \A e \in Ends : peer'[e].SendChan = peer[e].SendChan]_vars

\* C33's case: a peer's new frame failed to inject and counts as the only
\* error; the loop went on and has injected the next peer's frame.
InjectFailureCountedWitness ==
    /\ Len(relayLog) = 2 /\ LogOf("peer") = {1, 2}
    /\ relayLog[1].inject = "err" /\ relayLog[2].inject = "ok"
    /\ totalErrors = 1
    /\ totalReceived = 0 /\ totalForwarded = 0 /\ totalDropped = 0
    /\ \A e \in Ends : peer[e].SendChan = <<>>
    /\ loop.pc = "select"

\* The broadcasts that found the egress queue of some registered peer full.
FullQueueBroadcasts ==
    {i \in LogOfDup("capture", FALSE) :
         \E e \in Registered(1) : relayLog[i].added[e] = 0}

\* C37: each broadcast that finds a peer's egress queue full counts in
\* total_dropped by the time the loop has finished with the frame.
FullQueueCountsDropped ==
    loop.pc = "select" => totalDropped >= Cardinality(FullQueueBroadcasts)

\* C28: every Stats value CollectStats returns satisfies total_forwarded +
\* total_dropped <= total_received, also when the fan-out loop works while
\* it is taken.
SnapshotConsistent ==
    \A i \in 1..Len(snap.out) :
        snap.out[i].st.TotalForwarded + snap.out[i].st.TotalDropped
            <= snap.out[i].st.TotalReceived

\* C6: outside demo mode the four aggregate counters never decrease, and
\* total_forwarded + total_dropped <= total_received in every state, also
\* between the counter updates of one frame.
CountersMonotonic ==
    /\ [](totalForwarded + totalDropped <= totalReceived)
    /\ [][/\ totalReceived' >= totalReceived
          /\ totalForwarded' >= totalForwarded
          /\ totalDropped' >= totalDropped
          /\ totalErrors' >= totalErrors]_vars

\* C6's case: between the broadcast of a frame and its count in
\* total_forwarded, after an earlier drop and an injection error.
CountersMonotonicWitness ==
    /\ loop.pc = "cap_forward"
    /\ totalReceived = totalForwarded + totalDropped + 1
    /\ totalDropped >= 1 /\ totalErrors >= 1

\* ------------------------------------------- properties of the admission

\* C7: whenever a peer is inserted into the registry, its id is not in
\* banned_ids and its host is not in banned_hosts at that moment, whatever
\* the interleaving of BanPeer with the admission.
NoBannedPeerInserted ==
    \A i \in 1..Len(admitLog) :
        /\ admitLog[i].id \notin Range(admitLog[i].bannedIDs)
        /\ SplitHostPort(admitLog[i].id) \notin Range(admitLog[i].bannedHosts)

\* C8: with max_children = N the registry never holds more than N peers
\* attached directly to this node: no insertion leaves it with more peers
\* than the max_children the connection was checked against.
ChildLimitEnforced ==
    \A i \in 1..Len(admitLog) : admitLog[i].size <= admitLog[i].maxChildren

\* C25: every peer in the registry has completed the handshake; a
\* connection still in handshake, or whose handshake failed, is not in it.
RegisteredAfterHandshake == \A e \in Registered(1) : Ran(e)

\* The BanPeer call of goroutine c has returned.
BanReturned(c) == ban[c].pc = "returned"

\* C18: BanPeer(id, ip) closes the connection of every registered peer
\* whose id is id or whose host is ip, also when it matches by host only:
\* when the call has gone through the registry, each of them is closed.
BanClosesMatching ==
    [][\A c \in DOMAIN ban :
           ban[c].pc = "lock" /\ ban'[c].pc = "ids" =>
               \A i \in DOMAIN peers[1] :
                   (i = ban[c].id \/ SplitHostPort(i) = ban[c].ip) =>
                       conn'[peers[1][i]].closed]_vars

\* ------------------------------------------------ properties of cancellation

\* C11: after the root context of a server is cancelled, under fair
\* scheduling every Run of that server returns (both streams have ended, a
\* handshake in progress has ended) and the transport is closed.
CancelTerminates ==
    /\ ctxDone[1] ~> (run[1].hpc = "done" /\ conn[1].closed)
    /\ ctxDone[2] ~> (run[2].hpc = "done" /\ conn[2].closed)

\* ------------------------------------------------ properties of statistics

\* C12: for a fixed registry, any two CollectStats calls made under the
\* same sort configuration return the peers in the same order, also when
\* peers have equal values of the sort field and when sort_reverse is set.
SameOrderEveryCall ==
    \A i, j \in 1..Len(stats.results) :
        /\ stats.results[i].SortField = stats.results[j].SortField
        /\ stats.results[i].SortReverse = stats.results[j].SortReverse
        => stats.results[i].Peers = stats.results[j].Peers

\* The value of the sort field of a PeerStat, and the order on such values;
\* a field outside the recognized set stands for the id.
FieldOf(field, p) ==
    CASE field = "ip" -> p.IP
      [] field = "hostname" -> p.Hostname
      [] field = "connected" -> p.ConnectedAt
      [] field = "last_seen" -> p.LastSeen
      [] field = "children" -> p.NumChildren
      [] field = "sent_bytes" -> p.SentBytes
      [] field = "recv_bytes" -> p.RecvBytes
      [] field = "sent_pkts" -> p.SentPkts
      [] field = "recv_pkts" -> p.RecvPkts
      [] field = "errors" -> p.Errors
      [] OTHER -> p.ID

FieldLeq(field, p, q) ==
    IF field \in {"connected", "last_seen", "children", "sent_bytes",
                  "recv_bytes", "sent_pkts", "recv_pkts", "errors"}
    THEN FieldOf(field, p) <= FieldOf(field, q)
    ELSE FieldOf(field, p) = FieldOf(field, q)
         \/ StringLess(FieldOf(field, p), FieldOf(field, q))

\* C13: the list CollectStats returns holds every registered peer once and
\* is sorted by the field configured as the call was made, every adjacent
\* pair in ascending order without sort_reverse and in descending order with
\* it; a field outside the recognized set sorts by id.
SortedByField ==
    \A i \in 1..Len(stats.results) :
        LET r == stats.results[i].Peers
            field == stats.results[i].SortField
        IN  /\ Len(r) = Cardinality(stats.reg)
            /\ Range(r) = stats.reg
            /\ \A k \in 1..(Len(r) - 1) :
                   IF stats.results[i].SortReverse
                   THEN FieldLeq(field, r[k + 1], r[k])
                   ELSE FieldLeq(field, r[k], r[k + 1])

\* C13's case: three peers, two of them with equal packet counts, listed by
\* id; then the operator chose recv_pkts and the reverse order, and the
\* next call lists them by recv_pkts in descending order.
SortedByFieldWitness ==
    /\ Len(stats.results) = 2
    /\ stats.results[1].SortField = "id" /\ ~stats.results[1].SortReverse
    /\ stats.results[2].SortField = "recv_pkts" /\ stats.results[2].SortReverse
    /\ Len(stats.results[2].Peers) = 3
    /\ stats.results[2].Peers[1].RecvPkts = 2
    /\ stats.results[2].Peers[2].RecvPkts = 1
    /\ stats.results[2].Peers[3].RecvPkts = 1

\* ------------------------------------------- properties of admitted peers

\* The receiver of e has read a length prefix above 2000 and has ended.
Oversized(e) == run[e].rpc = "done" /\ run[e].length > MaxFrame

\* C14: once the receiver has read a length prefix above 2000 from a peer,
\* the link to that peer gets closed and the peer is removed from the
\* registry.
OversizeEndsLink ==
    \A e \in RelayEnds :
        Oversized(e) ~> (conn[e].closed /\ peer[e].ID \notin DOMAIN peers[1])

\* C15: a length prefix above 2000 increments the peer's error counter.
OversizeCountsError ==
    \A e \in RelayEnds : Oversized(e) => peer[e].errors >= 1

\* One of the two streams of e has ended while Run waits for both.
StreamExited(e) ==
    run[e].hpc = "wait" /\ (run[e].rpc = "done" \/ run[e].spc = "done")

\* C27: when either stream of a running link has exited, the transport gets
\* closed, the other stream exits too and the peer is removed from the
\* registry, without cancellation, egress traffic or a step of the remote.
StreamExitEndsLink ==
    \A e \in RelayEnds :
        StreamExited(e) ~>
            /\ conn[e].closed
            /\ run[e].rpc = "done" /\ run[e].spc = "done"
            /\ peer[e].ID \notin DOMAIN peers[1]

\* A step in which a stream of e ends on a transport error: the receiver on
\* a failed read of the length (the clean end of the stream, io.EOF, left
\* aside) or of the payload, the sender on a failed write of the length or
\* of the payload.
EndsOnError(e) ==
    \/ /\ run[e].rpc = "read_len" /\ run'[e].rpc = "done"
       /\ ReadOutcomes(e, 4) \subseteq {"short", "closed"}
    \/ run[e].rpc = "read_data" /\ run'[e].rpc = "done"
    \/ run[e].spc \in {"write_len", "write_data"} /\ run'[e].spc = "done"

\* A step in which a stream of e ends on cancellation.
EndsOnCancel(e) ==
    \/ run[e].rpc = "publish" /\ run'[e].rpc = "done"
    \/ run[e].spc = "select" /\ run'[e].spc = "done"

\* C34: every transport error that ends a stream of a running link adds 1
\* to the peer's errors counter, whichever of the four operations failed;
\* an end by cancellation leaves the counter as it was.
TransportErrorsCounted ==
    [][\A e \in RelayEnds :
           /\ EndsOnError(e) => peer'[e].errors = peer[e].errors + 1
           /\ EndsOnCancel(e) => peer'[e].errors = peer[e].errors]_vars

\* DisconnectPeer has closed the connection of e under a Run that still
\* waits for its goroutines (Run itself closes only after the wait).
Disconnected(e) == conn[e].closed /\ run[e].hpc = "wait"

\* C19: after DisconnectPeer has closed a peer's link, the link's own exit
\* path removes the peer from the registry, without cancellation or further
\* traffic.
DisconnectRemoves ==
    \A e \in RelayEnds :
        Disconnected(e) ~> (peer[e].ID \notin DOMAIN peers[1])

\* The frames broadcastToPeers has put into the SendChan of e, in the order
\* of the calls.
Enqueued(e) ==
    LET F[i \in 0..Len(relayLog)] ==
            IF i = 0 THEN <<>>
            ELSE IF relayLog[i].added[e] = 1
                 THEN Append(F[i - 1], relayLog[i].data)
                 ELSE F[i - 1]
    IN  F[Len(relayLog)]

\* The bytes of a sequence of frames on the wire: for each frame its length
\* as a big-endian uint32, then its bytes.
RECURSIVE Encode(_)
Encode(frames) ==
    IF frames = <<>> THEN <<>>
    ELSE U32BE(Len(Head(frames))) \o Head(frames) \o Encode(Tail(frames))

\* C20: per-peer FIFO.  What has been written to a peer's connection is the
\* wire form of the frames enqueued for the peer, in the order they were
\* enqueued, each length prefix directly followed by its bytes, up to the
\* point the sender has reached: the frames counted in sentPkts are there in
\* full, and nothing else but a part of the next frame follows.
PerPeerFIFO ==
    \A e \in RelayEnds :
        LET enq == Enqueued(e)
        IN  /\ peer[e].sentPkts <= Len(enq)
            /\ IsPrefix(Encode(SubSeq(enq, 1, peer[e].sentPkts)),
                        conn[e].written)
            /\ IsPrefix(conn[e].written, Encode(enq))
            /\ run[e].spc = "select" =>
                   /\ conn[e].written =
                          Encode(SubSeq(enq, 1, peer[e].sentPkts))
                   /\ peer[e].SendChan =
                          SubSeq(enq, peer[e].sentPkts + 1, Len(enq))

\* Two different frames were enqueued for a peer and both are written.
PerPeerFIFOWitness ==
    \E e \in RelayEnds :
        /\ Len(Enqueued(e)) = 2
        /\ Enqueued(e)[1] # Enqueued(e)[2]
        /\ peer[e].sentPkts = 2
        /\ conn[e].written = Encode(Enqueued(e))

\* ------------------------------------------------------ properties of bans

\* No element occurs twice in the sequence.
NoDup(s) == \A i, j \in 1..Len(s) : s[i] = s[j] => i = j

\* C16: the deny-lists hold no entry twice and no empty entry, and after
\* BanPeer(id, ip) has returned a non-empty id is in BannedIDs and a
\* non-empty ip in BannedHosts.
BanListsExact ==
    /\ NoDup(cfg.BannedIDs) /\ NoDup(cfg.BannedHosts)
    /\ "" \notin Range(cfg.BannedIDs) /\ "" \notin Range(cfg.BannedHosts)
    /\ \A c \in DOMAIN ban :
           BanReturned(c) =>
               /\ ban[c].id # "" => ban[c].id \in Range(cfg.BannedIDs)
               /\ ban[c].ip # "" => ban[c].ip \in Range(cfg.BannedHosts)

\* C17: a connection, accepted or dialed, that arrives after a BanPeer call
\* for its id or host has returned, and is on a deny-list as it arrives, is
\* never made a peer, is never inserted into the registry and gets no
\* handshake byte; handleNewConn returns with the connection closed.
BannedArrivalRejected ==
    \A e \in BanEnds :
        hnc[e].banned =>
            /\ hnc[e].pc \in {"ban_ids", "ban_hosts", "returned"}
            /\ e \notin DOMAIN run
            /\ RemoteAddr(e) \notin DOMAIN peers[1]
            /\ conn[e].written = <<>>
            /\ hnc[e].pc = "returned" => conn[e].closed

\* --------------------------------------------------- properties of Start

\* TLS is enabled and the certificate/key pair cannot be loaded.
NoTLSMaterial == ~boot.disableSSL /\ ~boot.certOK

\* C29: with TLS enabled and a certificate/key pair that cannot be loaded,
\* Start returns an error.
TLSErrorSurfaces ==
    boot.pc = "returned" /\ NoTLSMaterial => boot.ret = "error"

\* C30: when the capture fails to start (in demo mode Start launches
\* runDemo and does not start the capture), Start still returns nil, the
\* error text is stored, the listener, one dialer per configured peer and
\* the relay loop are launched, and every snapshot begun after the error
\* was stored shows the text as capture_error, whether or not the demo
\* mode was switched on since.
CaptureFailureNotFatal ==
    /\ boot.pc = "returned" /\ demo.pc = "off" /\ boot.capture # "ok" =>
        /\ boot.ret = "nil"
        /\ boot.captureError = CaptureErrorText(boot.capture)
        /\ boot.captureError # ""
        /\ boot.listen # "none"
        /\ boot.dialers = boot.nPeers
        /\ loop.pc = "select"
    /\ \A i \in 1..Len(snap.out) :
        snap.out[i].stored /\ boot.capture # "ok" =>
            snap.out[i].st.CaptureError = CaptureErrorText(boot.capture)

\* C30's case: no interface is configured; Start, outside demo mode, has
\* returned nil, the listener listens, two dialers and the loop run, and a
\* snapshot taken afterwards, with the demo mode switched on meanwhile,
\* shows "no interface specified".
CaptureFailureNotFatalWitness ==
    /\ boot.pc = "returned" /\ boot.ret = "nil"
    /\ demo.pc = "off" /\ addp.demoMode
    /\ boot.capture = "no_iface"
    /\ boot.listen = "listening"
    /\ boot.dialers = MaxPeersCfg
    /\ loop.pc = "select"
    /\ Len(snap.out) = 1
    /\ snap.out[1].stored
    /\ snap.out[1].st.CaptureError = "no interface specified"

\* ------------------------------------------------- properties of AddPeer

\* Occurrences of x in the sequence s.
Count(s, x) == Cardinality({i \in 1..Len(s) : s[i] = x})

\* C31: when every AddPeer call made so far has returned, the address of
\* each call is in the peer list exactly once, and exactly one dialer has
\* been launched for it outside demo mode, none in demo mode (the mode not
\* having been switched since Start); also when calls with the same
\* address ran at the same time.
AddPeerOncePerAddress ==
    (\A c \in DOMAIN addp.call : addp.call[c].pc \in {"idle", "returned"}) =>
        \A c \in DOMAIN addp.call :
            addp.call[c].pc = "returned" =>
                /\ Count(addp.peers, addp.call[c].addr) = 1
                /\ ~addp.switched =>
                       Count([d \in DOMAIN dialer |-> dialer[d].addr],
                             addp.call[c].addr) =
                           IF addp.demoMode THEN 0 ELSE 1

\* ------------------------------------- properties of listener and dialers

\* The link of connection e is in its handshake or RUNNING.
LinkLive(e) ==
    /\ e \in DOMAIN run
    /\ hnc[e].pc = "run"
    /\ run[e].hpc \in {"hs_send_len", "hs_send_key", "hs_read_len",
                       "hs_read_key", "hs_peek", "hs_discard", "hs_reply",
                       "spawn", "wait"}

\* C39: while the link of one accepted connection is in its handshake or
\* RUNNING, the listener can accept a second inbound connection that is
\* waiting (the root context not being cancelled).
ListenerKeepsAccepting ==
    \A e \in ListenEnds, o \in ListenEnds :
        /\ hnc[e].pc = "pending"
        /\ ~ctxDone[1]
        /\ LinkLive(o)
        => ENABLED AcceptFrom(ListenEnds, e)

\* An attempt of dialer d has ended: the dial failed, or handleNewConn has
\* turned the connection away, or the Run of its link has returned.
AttemptOver(d) ==
    \/ dialer[d].pc = "sleep"
    \/ /\ dialer[d].pc = "hnc"
       /\ \/ hnc[dialer[d].e].pc = "returned"
          \/ dialer[d].e \in DOMAIN run /\ run[dialer[d].e].hpc = "done"

\* C38: a dialer whose attempt has ended while the root context is not
\* cancelled gets to dial again (or the context is cancelled meanwhile); and
\* whenever a dialer is not inside handleNewConn, the connection of its last
\* attempt is closed and the Run of its link has returned, so one dialer
\* never has two links at a time.
DialerRetries ==
    /\ [](\A d \in Dialers :
            dialer[d].pc \in {"select", "dial", "sleep", "done"} =>
                LET e == dialer[d].e
                IN  /\ ~LinkLive(e)
                    /\ hnc[e].pc \in {"pending", "returned"}
                    /\ hnc[e].pc = "returned" => conn[e].closed
                    /\ e \in DOMAIN run =>
                           /\ run[e].hpc = "done"
                           /\ run[e].rpc \in {"off", "done"}
                           /\ run[e].spc \in {"off", "done"})
    /\ \A d \in Dialers :
           (AttemptOver(d) /\ ~ctxDone[1]) ~> (dialer[d].pc = "dial" \/ ctxDone[1])

\* C38's case: the link of a dialer has terminated without cancellation,
\* the dialer has dialed again and its new link, the second it registered,
\* is live; the other dialer has not connected yet and sleeps after a
\* failed dial.
DialerRetriesWitness ==
    /\ ~ctxDone[1]
    /\ Len(admitLog) = 2
    /\ dialer[1].pc = "hnc" /\ LinkLive(dialer[1].e)
    /\ hnc[dialer[2].e].pc = "pending" /\ dialer[2].pc = "sleep"

\* C40: the registry entry of a link that is RUNNING is not deleted (a
\* link's own deletion comes after its streams have ended); in particular
\* not by the end of an older link that was registered under the same id.
EntryDeletedByOwnEnd ==
    [][\A id \in DOMAIN peers[1] :
           /\ ~ctxDone[1]
           /\ run[peers[1][id]].hpc = "wait"
           => id \in DOMAIN peers'[1]]_vars


==============================================================================
